---- MODULE Spec2Model ----
(***************************************************************************)
(* The command validator of ai-terminal-assistant (security.py) as a state *)
(* machine.  Command text is a sequence of one-character strings, so that  *)
(* strip, shlex.split, lower, startswith, rstrip and the regular           *)
(* expressions are computed character by character as Python computes      *)
(* them.  Text the validator only builds and returns (reasons) is a        *)
(* string.                                                                 *)
(***************************************************************************)
EXTENDS Integers, Sequences, FiniteSets, TLC

(***************************************************************************)
(* Characters                                                              *)
(***************************************************************************)

\* str.lower() on one character
LowerMap ==
  [A |-> "a", B |-> "b", C |-> "c", D |-> "d", E |-> "e", F |-> "f", G |-> "g",
   H |-> "h", I |-> "i", J |-> "j", K |-> "k", L |-> "l", M |-> "m", N |-> "n",
   O |-> "o", P |-> "p", Q |-> "q", R |-> "r", S |-> "s", T |-> "t", U |-> "u",
   V |-> "v", W |-> "w", X |-> "x", Y |-> "y", Z |-> "z"]

LowerChar(c) == IF c \in DOMAIN LowerMap THEN LowerMap[c] ELSE c

\* str.lower() on a text
Lower(s) == [i \in 1..Len(s) |-> LowerChar(s[i])]

\* the text as one string, for membership tests and for building messages
RECURSIVE ToStr(_)
ToStr(s) == IF s = <<>> THEN "" ELSE Head(s) \o ToStr(Tail(s))

\* the characters str.strip() removes and the regular expression \s matches
Whitespace == {" ", "\t", "\n", "\r", "\f"}

\* shlex.whitespace
ShlexWhitespace == {" ", "\t", "\r", "\n"}

LowerLetters == {LowerMap[k] : k \in DOMAIN LowerMap}

Digits == {"0", "1", "2", "3", "4", "5", "6", "7", "8", "9"}

\* the characters the regular expression \w matches
WordChars == LowerLetters \cup DOMAIN LowerMap \cup Digits \cup {"_"}

(***************************************************************************)
(* str operations                                                          *)
(***************************************************************************)

RECURSIVE LStrip(_, _)
LStrip(s, chars) ==
  IF s # <<>> /\ Head(s) \in chars THEN LStrip(Tail(s), chars) ELSE s

RECURSIVE RStrip(_, _)
RStrip(s, chars) ==
  IF s # <<>> /\ s[Len(s)] \in chars
  THEN RStrip(SubSeq(s, 1, Len(s) - 1), chars)
  ELSE s

\* command.strip()
Strip(s) == RStrip(LStrip(s, Whitespace), Whitespace)

\* s.startswith(prefix)
StartsWith(s, prefix) ==
  Len(prefix) <= Len(s) /\ SubSeq(s, 1, Len(prefix)) = prefix

\* s.endswith(suffix)
EndsWith(s, suffix) ==
  Len(suffix) <= Len(s) /\ SubSeq(s, Len(s) - Len(suffix) + 1, Len(s)) = suffix

\* c in s, for a single character c
Contains(s, c) == \E i \in 1..Len(s) : s[i] = c

(***************************************************************************)
(* Regular expressions (re.search with re.IGNORECASE)                      *)
(*                                                                         *)
(* A pattern is a tree; Ends(re, s, P) is the set of positions where a     *)
(* match of re can end when it starts at one of the positions P (a         *)
(* position is the number of characters before it).                        *)
(***************************************************************************)

ReSet(S)    == [t |-> "set", s |-> S, neg |-> FALSE]
ReNotSet(S) == [t |-> "set", s |-> S, neg |-> TRUE]
ReLit(c)    == ReSet({c})
ReCat(rs)   == [t |-> "cat", rs |-> rs]
ReStar(r)   == [t |-> "star", r |-> r]
RePlus(r)   == ReCat(<<r, ReStar(r)>>)
ReOpt(r)    == [t |-> "opt", r |-> r]
ReText(w)   == ReCat([i \in 1..Len(w) |-> ReLit(w[i])])
ReSpace     == ReSet(Whitespace)
ReWord      == ReSet(WordChars)
ReDot       == ReNotSet({"\n"})

\* one character against a character set, ignoring case
CharMatches(c, re) == ((c \in re.s) \/ (LowerChar(c) \in re.s)) # re.neg

RECURSIVE Ends(_, _, _)
RECURSIVE EndsCat(_, _, _, _)
RECURSIVE EndsStar(_, _, _, _)

Ends(re, s, P) ==
  CASE re.t = "set"  -> {p + 1 : p \in {q \in P : q < Len(s) /\ CharMatches(s[q + 1], re)}}
    [] re.t = "cat"  -> EndsCat(re.rs, 1, s, P)
    [] re.t = "star" -> EndsStar(re.r, s, P, P)
    [] re.t = "opt"  -> P \cup Ends(re.r, s, P)

EndsCat(rs, i, s, P) ==
  IF i > Len(rs) \/ P = {} THEN P ELSE EndsCat(rs, i + 1, s, Ends(rs[i], s, P))

EndsStar(r, s, acc, frontier) ==
  LET new == Ends(r, s, frontier) \ acc
  IN  IF new = {} THEN acc ELSE EndsStar(r, s, acc \cup new, new)

\* re.search(pattern, s, re.IGNORECASE) is not None
Search(re, s) == Ends(re, s, 0..Len(s)) # {}

SetMax(S) == CHOOSE x \in S : \A y \in S : y <= x
SetMin(S) == CHOOSE x \in S : \A y \in S : x <= y

\* re.search(prefix(group), s).group(1), or <<>> with found = FALSE: the
\* leftmost start that matches, then the longest prefix and the longest group
\* (every quantifier of the patterns used is greedy)
SearchGroup(prefix, group, s) ==
  LET whole  == ReCat(<<prefix, group>>)
      starts == {i \in 0..Len(s) : Ends(whole, s, {i}) # {}}
  IN  IF starts = {} THEN [found |-> FALSE, group |-> <<>>]
      ELSE LET i == SetMin(starts)
               j == SetMax({q \in Ends(prefix, s, {i}) : Ends(group, s, {q}) # {}})
               k == SetMax(Ends(group, s, {j}))
           IN  [found |-> TRUE, group |-> SubSeq(s, j + 1, k)]

(***************************************************************************)
(* Optional values: None, or a value                                       *)
(***************************************************************************)

None == <<>>
Some(v) == <<v>>
IsNone(o) == o = <<>>
Value(o) == o[1]

\* The element of a one-element set.  An intermediate result is bound as
\* x \in {e}, so that it is computed once where it is assigned, as a local
\* variable of the code is.
The(S) == CHOOSE x \in S : TRUE

(***************************************************************************)
(* shlex.split(command): POSIX mode, whitespace_split, no comment          *)
(* characters.  state and escapedstate hold what shlex.read_token keeps in *)
(* them: " " between tokens, "a" inside a word, the quote character inside *)
(* quotes, the backslash after an escape.                                  *)
(***************************************************************************)

ShlexQuotes == {"'", "\""}
ShlexEscape == {"\\"}
ShlexEscapedQuotes == {"\""}

ShlexOk(parts) == [ok |-> TRUE, parts |-> parts, error |-> ""]
ShlexError(msg) == [ok |-> FALSE, parts |-> <<>>, error |-> msg]

RECURSIVE ShlexRead(_, _, _, _, _, _, _)
ShlexRead(s, i, state, escapedstate, token, quoted, parts) ==
  IF i > Len(s)
  THEN \* end of input
       CASE state = " " -> ShlexOk(parts)
         [] state \in ShlexQuotes -> ShlexError("No closing quotation")
         [] state \in ShlexEscape -> ShlexError("No escaped character")
         [] OTHER ->
              IF token # <<>> \/ quoted THEN ShlexOk(Append(parts, token))
              ELSE ShlexOk(parts)
  ELSE
    LET c == s[i] IN
    CASE state = " " ->
           IF c \in ShlexWhitespace
             THEN ShlexRead(s, i + 1, " ", escapedstate, token, quoted, parts)
           ELSE IF c \in ShlexEscape
             THEN ShlexRead(s, i + 1, c, "a", token, quoted, parts)
           ELSE IF c \in ShlexQuotes
             THEN ShlexRead(s, i + 1, c, escapedstate, token, quoted, parts)
           ELSE ShlexRead(s, i + 1, "a", escapedstate, <<c>>, quoted, parts)
      [] state \in ShlexQuotes ->
           IF c = state
             THEN ShlexRead(s, i + 1, "a", escapedstate, token, TRUE, parts)
           ELSE IF c \in ShlexEscape /\ state \in ShlexEscapedQuotes
             THEN ShlexRead(s, i + 1, c, state, token, TRUE, parts)
           ELSE ShlexRead(s, i + 1, state, escapedstate, Append(token, c), TRUE, parts)
      [] state \in ShlexEscape ->
           LET kept == IF escapedstate \in ShlexQuotes /\ c # state /\ c # escapedstate
                       THEN Append(token, state) ELSE token
           IN  ShlexRead(s, i + 1, escapedstate, escapedstate, Append(kept, c), quoted, parts)
      [] OTHER -> \* state = "a"
           IF c \in ShlexWhitespace
             THEN IF token # <<>> \/ quoted
                  THEN ShlexRead(s, i + 1, " ", " ", <<>>, FALSE, Append(parts, token))
                  ELSE ShlexRead(s, i + 1, " ", escapedstate, token, quoted, parts)
           ELSE IF c \in ShlexQuotes
             THEN ShlexRead(s, i + 1, c, escapedstate, token, quoted, parts)
           ELSE IF c \in ShlexEscape
             THEN ShlexRead(s, i + 1, c, "a", token, quoted, parts)
           ELSE ShlexRead(s, i + 1, "a", escapedstate, Append(token, c), quoted, parts)

\* shlex.split(command): the tokens, or the ValueError's message
ShlexSplit(command) == ShlexRead(command, 1, " ", " ", <<>>, FALSE, <<>>)

(***************************************************************************)
(* The patterns of the classification tables.  A table holds the pattern   *)
(* texts, as the code does; re_compile gives the pattern of a text.        *)
(***************************************************************************)

ReDevDisk == ReCat(<<ReText(<<"/","d","e","v","/">>), ReSet({"s", "h"}), ReLit("d")>>)

re_compile(pattern) ==
  CASE pattern = "rm\\s+-rf\\s*/" ->
         ReCat(<<ReText(<<"r","m">>), RePlus(ReSpace), ReText(<<"-","r","f">>), ReStar(ReSpace), ReLit("/")>>)
    [] pattern = "rm\\s+-rf\\s+/\\w+" ->
         ReCat(<<ReText(<<"r","m">>), RePlus(ReSpace), ReText(<<"-","r","f">>), RePlus(ReSpace), ReLit("/"),
                 RePlus(ReWord)>>)
    [] pattern = "dd\\s+if=.*of=/dev/[sh]d" ->
         ReCat(<<ReText(<<"d","d">>), RePlus(ReSpace), ReText(<<"i","f","=">>), ReStar(ReDot),
                 ReText(<<"o","f","=">>), ReDevDisk>>)
    [] pattern = ":\\(\\)\\{\\s*.*\\|\\s*.*&\\s*\\}:" ->
         ReCat(<<ReText(<<":","(",")","{">>), ReStar(ReSpace), ReStar(ReDot), ReLit("|"), ReStar(ReSpace),
                 ReStar(ReDot), ReLit("&"), ReStar(ReSpace), ReText(<<"}",":">>)>>)
    [] pattern = ">\\s*/dev/[sh]d" ->
         ReCat(<<ReLit(">"), ReStar(ReSpace), ReDevDisk>>)
    [] pattern = "curl.*\\|\\s*sh" ->
         ReCat(<<ReText(<<"c","u","r","l">>), ReStar(ReDot), ReLit("|"), ReStar(ReSpace), ReText(<<"s","h">>)>>)
    [] pattern = "wget.*\\|\\s*sh" ->
         ReCat(<<ReText(<<"w","g","e","t">>), ReStar(ReDot), ReLit("|"), ReStar(ReSpace), ReText(<<"s","h">>)>>)
    [] pattern = "echo.*>\\s*/etc/passwd" ->
         ReCat(<<ReText(<<"e","c","h","o">>), ReStar(ReDot), ReLit(">"), ReStar(ReSpace),
                 ReText(<<"/","e","t","c","/","p","a","s","s","w","d">>)>>)
    [] pattern = "echo.*>\\s*/etc/shadow" ->
         ReCat(<<ReText(<<"e","c","h","o">>), ReStar(ReDot), ReLit(">"), ReStar(ReSpace),
                 ReText(<<"/","e","t","c","/","s","h","a","d","o","w">>)>>)
    [] pattern = "rm\\s+-r[f]?\\s+" ->
         ReCat(<<ReText(<<"r","m">>), RePlus(ReSpace), ReText(<<"-","r">>), ReOpt(ReSet({"f"})),
                 RePlus(ReSpace)>>)
    [] pattern = "chmod\\s+[0-7]{3}\\s+/" ->
         LET octal == ReSet({"0", "1", "2", "3", "4", "5", "6", "7"})
         IN  ReCat(<<ReText(<<"c","h","m","o","d">>), RePlus(ReSpace), octal, octal, octal, RePlus(ReSpace),
                     ReLit("/")>>)
    [] pattern = "chown\\s+.*:\\s*/" ->
         ReCat(<<ReText(<<"c","h","o","w","n">>), RePlus(ReSpace), ReStar(ReDot), ReLit(":"), ReStar(ReSpace),
                 ReLit("/")>>)
    [] pattern = ">\\s*/etc/" -> ReCat(<<ReLit(">"), ReStar(ReSpace), ReText(<<"/","e","t","c","/">>)>>)
    [] pattern = ">\\s*/var/" -> ReCat(<<ReLit(">"), ReStar(ReSpace), ReText(<<"/","v","a","r","/">>)>>)
    [] pattern = ">\\s*/usr/" -> ReCat(<<ReLit(">"), ReStar(ReSpace), ReText(<<"/","u","s","r","/">>)>>)
    [] pattern = ">\\s*/boot/" -> ReCat(<<ReLit(">"), ReStar(ReSpace), ReText(<<"/","b","o","o","t","/">>)>>)

\* re.search(pattern, command, re.IGNORECASE)
re_search(pattern, command) == Search(re_compile(pattern), command)

(***************************************************************************)
(* The classification tables CommandValidator.__init__ builds              *)
(***************************************************************************)

InitDangerousCommands ==
  {"dd", "mkfs", "fdisk", "parted", "shred", "format", "wipefs",
   "badblocks", "fsck", "cfdisk", "init", "shutdown", "reboot",
   "halt", "poweroff", "passwd", "userdel", "groupdel"}

InitCriticalPatterns ==
  <<"rm\\s+-rf\\s*/",
    "rm\\s+-rf\\s+/\\w+",
    "dd\\s+if=.*of=/dev/[sh]d",
    ":\\(\\)\\{\\s*.*\\|\\s*.*&\\s*\\}:",
    ">\\s*/dev/[sh]d",
    "curl.*\\|\\s*sh",
    "wget.*\\|\\s*sh",
    "echo.*>\\s*/etc/passwd",
    "echo.*>\\s*/etc/shadow">>

InitWarningPatterns ==
  <<"rm\\s+-r[f]?\\s+",
    "chmod\\s+[0-7]{3}\\s+/",
    "chown\\s+.*:\\s*/",
    ">\\s*/etc/",
    ">\\s*/var/",
    ">\\s*/usr/",
    ">\\s*/boot/">>

InitConfirmationCommands ==
  {"cp", "mv", "ln", "mkdir", "touch", "rm", "rmdir",
   "chmod", "chown", "chgrp",
   "tar", "unzip", "gzip", "gunzip", "zip",
   "nano", "vim", "vi", "emacs", "gedit",
   "apt", "apt-get", "dpkg", "snap", "pip", "pip3",
   "systemctl", "service", "sudo",
   "iptables", "ufw", "netplan"}

InitSafeConfigFiles ==
  {<<"~","/",".","b","a","s","h","r","c">>, <<"~","/",".","b","a","s","h","_","a","l","i","a","s","e","s">>, <<"~","/",".","b","a","s","h","_","p","r","o","f","i","l","e">>, <<"~","/",".","p","r","o","f","i","l","e">>,
   <<"~","/",".","z","s","h","r","c">>, <<"~","/",".","z","s","h","_","a","l","i","a","s","e","s">>, <<"~","/",".","v","i","m","r","c">>, <<"~","/",".","n","a","n","o","r","c">>,
   <<"~","/",".","g","i","t","c","o","n","f","i","g">>, <<"~","/",".","s","s","h","/","c","o","n","f","i","g">>,
   <<"~","/",".","c","o","n","f","i","g","/">>, <<"~","/",".","l","o","c","a","l","/">>,
   <<"/","e","t","c","/","n","g","i","n","x","/">>, <<"/","e","t","c","/","a","p","a","c","h","e","2","/">>, <<"/","e","t","c","/","h","t","t","p","d","/">>,
   <<"/","e","t","c","/","m","y","s","q","l","/">>, <<"/","e","t","c","/","p","o","s","t","g","r","e","s","q","l","/">>,
   <<"/","e","t","c","/","r","e","d","i","s","/">>, <<"/","e","t","c","/","m","e","m","c","a","c","h","e","d","/">>,
   <<"/","e","t","c","/","p","h","p","/">>, <<"/","e","t","c","/","p","y","t","h","o","n","3","/">>,
   <<"/","e","t","c","/","e","n","v","i","r","o","n","m","e","n","t">>, <<"/","e","t","c","/","h","o","s","t","s">>,
   <<"/","e","t","c","/","f","s","t","a","b">>, <<"/","e","t","c","/","c","r","o","n","t","a","b">>,
   <<"/","e","t","c","/","s","y","s","t","e","m","d","/">>, <<"/","e","t","c","/","u","f","w","/">>,
   <<"/","e","t","c","/","i","p","t","a","b","l","e","s","/">>, <<"/","e","t","c","/","n","e","t","p","l","a","n","/">>,
   <<"/","e","t","c","/","a","p","t","/">>, <<"/","e","t","c","/","y","u","m",".","r","e","p","o","s",".","d","/">>}

InitCriticalFiles ==
  {<<"/","e","t","c","/","p","a","s","s","w","d">>, <<"/","e","t","c","/","s","h","a","d","o","w">>, <<"/","e","t","c","/","s","u","d","o","e","r","s">>,
   <<"/","e","t","c","/","g","r","o","u","p">>, <<"/","e","t","c","/","g","s","h","a","d","o","w">>, <<"/","b","o","o","t","/">>,
   <<"/","p","r","o","c","/">>, <<"/","s","y","s","/">>, <<"/","d","e","v","/">>}

\* the validator object after CommandValidator(security_config)
NewValidator(security_config) ==
  [config                |-> security_config,
   DANGEROUS_COMMANDS    |-> InitDangerousCommands,
   CRITICAL_PATTERNS     |-> InitCriticalPatterns,
   WARNING_PATTERNS      |-> InitWarningPatterns,
   CONFIRMATION_COMMANDS |-> InitConfirmationCommands,
   SAFE_CONFIG_FILES     |-> InitSafeConfigFiles,
   CRITICAL_FILES        |-> InitCriticalFiles]

\* config.get(key, default)
ConfigGet(config, key, default) ==
  IF key \in DOMAIN config THEN config[key] ELSE default

\* the default of config.get("max_command_length", 2000)
DefaultMaxCommandLength == 2000

(***************************************************************************)
(* CommandValidator._is_config_editing_command                             *)
(***************************************************************************)

Editors == {"nano", "vim", "vi", "emacs", "gedit", "code", "subl"}

ConfigExtensions ==
  {<<".","c","o","n","f">>, <<".","c","o","n","f","i","g">>, <<".","c","f","g">>, <<".","i","n","i">>, <<".","y","m","l">>, <<".","y","a","m","l">>, <<".","j","s","o","n">>}

SudoPrefixes == {<<"/","e","t","c","/">>, <<"/","v","a","r","/">>, <<"/","u","s","r","/">>, <<"/","b","o","o","t","/">>, <<"/","o","p","t","/">>}

\* the condition of line 304; "and" binds tighter than "or"
PartIsFile(part) ==
  \/ (~StartsWith(part, <<"-">>) /\ Contains(part, "/"))
  \/ StartsWith(part, <<"~">>)
  \/ \E ext \in ConfigExtensions : EndsWith(part, ext)

\* the condition of line 299
IsEditorCommand(command_parts) ==
  LET base_command == ToStr(Lower(command_parts[1]))
  IN  \/ base_command \in Editors
      \/ (base_command = "sudo" /\ Len(command_parts) > 1
          /\ ToStr(command_parts[2]) \in Editors)

\* the loop of lines 303-306: the first part after the first that is a file
EditedFile(command_parts) ==
  LET found == {i \in 2..Len(command_parts) : PartIsFile(command_parts[i])}
  IN  IF found = {} THEN None ELSE Some(command_parts[SetMin(found)])

ReTargetChars == RePlus(ReNotSet(Whitespace \cup {"&", "|", ";"}))

\* re.search(r'>\s*([^\s&|;]+)', command), group 1
RedirectTarget(command) ==
  LET m == SearchGroup(ReCat(<<ReLit(">"), ReStar(ReSpace)>>), ReTargetChars, command)
  IN  IF m.found THEN Some(m.group) ELSE None

\* re.search(r'>+\s*([^\s&|;]+)', command), group 1
StreamTarget(command) ==
  LET m == SearchGroup(ReCat(<<RePlus(ReLit(">")), ReStar(ReSpace)>>), ReTargetChars, command)
  IN  IF m.found THEN Some(m.group) ELSE None

\* the editor and the file path, were the editor recorded only with a file
DetectTargetFileOnly(command, command_parts) ==
  LET base_command == Lower(command_parts[1])
  IN  IF IsEditorCommand(command_parts)
        THEN [editor |-> IF IsNone(EditedFile(command_parts))
                           THEN None ELSE Some(ToStr(base_command)),
              file_path |-> EditedFile(command_parts)]
      ELSE IF Contains(command, ">")
        THEN [editor |-> None, file_path |-> RedirectTarget(command)]
      ELSE [editor |-> None, file_path |-> None]

\* lines 297-318: the editor and the file path, by the first branch that applies
DetectTarget(command, command_parts) ==
  LET base_command == Lower(command_parts[1])
  IN  IF IsEditorCommand(command_parts)
        THEN [editor |-> Some(ToStr(base_command)), file_path |-> EditedFile(command_parts)]
      ELSE IF Contains(command, ">")
        THEN [editor |-> None, file_path |-> RedirectTarget(command)]
      ELSE IF ToStr(base_command) \in {"echo", "cat", "printf"} /\ Contains(command, ">")
        THEN [editor |-> None, file_path |-> StreamTarget(command)]
      ELSE [editor |-> None, file_path |-> None]

\* file_path starts with an entry of the table, its trailing '/' stripped
HasPrefixIn(file_path, table) ==
  \E entry \in table : StartsWith(file_path, RStrip(entry, {"/"}))

\* the flags, were is_config set by the SAFE_CONFIG_FILES loop alone
ClassifyTargetSafeOnly(self, target) ==
  LET truthy == ~IsNone(target.file_path) /\ Value(target.file_path) # <<>>
      file_path == Value(target.file_path)
      safe == truthy /\ HasPrefixIn(file_path, self.SAFE_CONFIG_FILES)
      critical == truthy /\ HasPrefixIn(file_path, self.CRITICAL_FILES)
      sudo == truthy /\ \E prefix \in SudoPrefixes : StartsWith(file_path, prefix)
  IN  [is_config     |-> safe,
       is_critical   |-> critical,
       file_path     |-> target.file_path,
       editor        |-> target.editor,
       requires_sudo |-> sudo]

\* lines 320-339: the flags of the file path found
ClassifyTarget(self, target) ==
  LET truthy == ~IsNone(target.file_path) /\ Value(target.file_path) # <<>>
      file_path == Value(target.file_path)
      safe == truthy /\ HasPrefixIn(file_path, self.SAFE_CONFIG_FILES)
      critical == truthy /\ HasPrefixIn(file_path, self.CRITICAL_FILES)
      sudo == truthy /\ \E prefix \in SudoPrefixes : StartsWith(file_path, prefix)
  IN  [is_config     |-> safe \/ critical \/ sudo,
       is_critical   |-> critical,
       file_path     |-> target.file_path,
       editor        |-> target.editor,
       requires_sudo |-> sudo]

_is_config_editing_command(self, command, command_parts) ==
  IF command_parts = <<>>
  THEN [is_config |-> FALSE, is_critical |-> FALSE, file_path |-> None,
        editor |-> None, requires_sudo |-> FALSE]
  ELSE The({ClassifyTarget(self, target) :
              target \in {DetectTarget(command, command_parts)}})

(***************************************************************************)
(* CommandValidator.validate_command                                       *)
(***************************************************************************)

RECURSIVE Join(_, _)
\* sep.join(parts)
Join(sep, parts) ==
  IF parts = <<>> THEN ""
  ELSE IF Len(parts) = 1 THEN parts[1]
  ELSE parts[1] \o sep \o Join(sep, Tail(parts))

\* the patterns of the list that match the command, in list order
MatchingPatterns(patterns, command) ==
  SelectSeq(patterns, LAMBDA pattern : re_search(pattern, command))

\* the length check with >= in place of >
ExceedsLengthInclusive(self, command) ==
  Len(command) >= ConfigGet(self.config, "max_command_length", DefaultMaxCommandLength)

\* line 197: the command is longer than the configured maximum
ExceedsLength(self, command) ==
  Len(command) > ConfigGet(self.config, "max_command_length", DefaultMaxCommandLength)

\* the critical scan, were it made only when block_dangerous_commands is on
CriticalDetectedIfBlocking(self, command) ==
  /\ ConfigGet(self.config, "block_dangerous_commands", TRUE)
  /\ MatchingPatterns(self.CRITICAL_PATTERNS, command) # <<>>

\* lines 211-218: a critical pattern matches
CriticalDetected(self, command) ==
  MatchingPatterns(self.CRITICAL_PATTERNS, command) # <<>>

\* the dangerous-command check, were it made whatever the configuration
DangerousBlockedAlways(self, base_command) ==
  ToStr(base_command) \in self.DANGEROUS_COMMANDS

\* lines 221-222: the dangerous-command check rejects
DangerousBlocked(self, base_command) ==
  /\ ConfigGet(self.config, "block_dangerous_commands", TRUE)
  /\ ToStr(base_command) \in self.DANGEROUS_COMMANDS

\* lines 231-237: the first warning pattern that matches, or None
DetectedPattern(self, command) ==
  LET matching == MatchingPatterns(self.WARNING_PATTERNS, command)
  IN  IF matching = <<>> THEN None ELSE Some(matching[1])

\* the confirmation triggers without the test of the base command
ConfirmationWithoutCommands(self, base_command, warning_detected, config_editing) ==
  LET reasons ==
        (IF warning_detected THEN <<"potentially risky operation detected">> ELSE <<>>)
        \o (IF config_editing.is_config
            THEN <<"editing configuration file: " \o ToStr(Value(config_editing.file_path))>>
            ELSE <<>>)
        \o (IF config_editing.is_critical
            THEN <<"CRITICAL SYSTEM FILE - extra caution required">> ELSE <<>>)
  IN  [needs_confirmation |-> reasons # <<>>, confirmation_reason |-> Join("; ", reasons)]

\* lines 243-261: (needs_confirmation, confirmation_reason)
Confirmation(self, base_command, warning_detected, config_editing) ==
  LET reasons ==
        (IF ToStr(base_command) \in self.CONFIRMATION_COMMANDS
         THEN <<"'" \o ToStr(base_command) \o "' modifies system state">> ELSE <<>>)
        \o (IF warning_detected THEN <<"potentially risky operation detected">> ELSE <<>>)
        \o (IF config_editing.is_config
            THEN <<"editing configuration file: " \o ToStr(Value(config_editing.file_path))>>
            ELSE <<>>)
        \o (IF config_editing.is_critical
            THEN <<"CRITICAL SYSTEM FILE - extra caution required">> ELSE <<>>)
  IN  [needs_confirmation |-> reasons # <<>>, confirmation_reason |-> Join("; ", reasons)]

\* the risk level, were any detected file path to count as a config edit
RiskLevelAnyTarget(warning_detected, config_editing) ==
  IF config_editing.is_critical THEN "HIGH"
  ELSE IF warning_detected \/ ~IsNone(config_editing.file_path) THEN "MEDIUM"
  ELSE "LOW"

\* the risk level with the MEDIUM test made before the HIGH test
RiskLevelConfigFirst(warning_detected, config_editing) ==
  IF warning_detected \/ config_editing.is_config THEN "MEDIUM"
  ELSE IF config_editing.is_critical THEN "HIGH"
  ELSE "LOW"

\* lines 264-268
RiskLevel(warning_detected, config_editing) ==
  IF config_editing.is_critical THEN "HIGH"
  ELSE IF warning_detected \/ config_editing.is_config THEN "MEDIUM"
  ELSE "LOW"

\* needs_confirmation without the require_confirmation gate
NeedsConfirmationUngated(self, triggered) == triggered

\* line 274
NeedsConfirmation(self, triggered) ==
  triggered /\ ConfigGet(self.config, "require_confirmation", TRUE)

\* lines 242-280: the verdict of a command that no check rejects
\* the backup flag, were it raised for critical files only
BackupRecommendedCriticalOnly(config_editing) == config_editing.is_critical

\* line 279
BackupRecommended(config_editing) ==
  config_editing.is_config \/ config_editing.is_critical

Verdict(self, base_command, detected_pattern, config_editing) ==
  LET warning_detected == ~IsNone(detected_pattern)
      confirmation == Confirmation(self, base_command, warning_detected, config_editing)
  IN  [valid               |-> TRUE,
       reason              |-> "Command validated",
       risk_level          |-> RiskLevel(warning_detected, config_editing),
       needs_confirmation  |-> NeedsConfirmation(self, confirmation.needs_confirmation),
       confirmation_reason |-> confirmation.confirmation_reason,
       base_command        |-> ToStr(base_command),
       config_editing      |-> config_editing,
       warning_pattern     |-> detected_pattern,
       backup_recommended  |-> BackupRecommended(config_editing)]

\* lines 230-240: the warning scan and the config-edit detection
Accept(self, command, command_parts, base_command) ==
  The({Verdict(self, base_command, detected_pattern, config_editing) :
         detected_pattern \in {DetectedPattern(self, command)},
         config_editing \in {_is_config_editing_command(self, command, command_parts)}})

\* the two blocking checks, were the dangerous-command check to come first
ClassifyDangerousFirst(self, command, command_parts, base_command) ==
  IF DangerousBlocked(self, base_command)
    THEN [valid |-> FALSE,
          reason |-> "Dangerous command blocked: " \o ToStr(base_command),
          risk_level |-> "HIGH"]
  ELSE IF CriticalDetected(self, command)
    THEN [valid |-> FALSE,
          reason |-> "Critical security pattern detected - command blocked",
          risk_level |-> "CRITICAL"]
  ELSE Accept(self, command, command_parts, base_command)

\* lines 210-228: the critical-pattern and dangerous-command checks
Classify(self, command, command_parts, base_command) ==
  IF CriticalDetected(self, command)
    THEN [valid |-> FALSE,
          reason |-> "Critical security pattern detected - command blocked",
          risk_level |-> "CRITICAL"]
  ELSE IF DangerousBlocked(self, base_command)
    THEN [valid |-> FALSE,
          reason |-> "Dangerous command blocked: " \o ToStr(base_command),
          risk_level |-> "HIGH"]
  ELSE Accept(self, command, command_parts, base_command)

\* the outcome of shlex.split, were its rejections to carry a risk level
ParsedWithRisk(self, command, split) ==
  IF ~split.ok
    THEN [valid |-> FALSE, reason |-> "Invalid syntax: " \o split.error,
          risk_level |-> "LOW"]
  ELSE IF split.parts = <<>>
    THEN [valid |-> FALSE, reason |-> "Unable to parse command", risk_level |-> "LOW"]
  ELSE The({Classify(self, command, split.parts, base_command) :
              base_command \in {Lower(split.parts[1])}})

\* lines 201-208: the outcome of shlex.split
Parsed(self, command, split) ==
  IF ~split.ok
    THEN [valid |-> FALSE, reason |-> "Invalid syntax: " \o split.error]
  ELSE IF split.parts = <<>>
    THEN [valid |-> FALSE, reason |-> "Unable to parse command"]
  ELSE The({Classify(self, command, split.parts, base_command) :
              base_command \in {Lower(split.parts[1])}})

\* lines 194-202: the empty and length checks on the stripped command
Checked(self, command) ==
  IF command = <<>>
    THEN [valid |-> FALSE, reason |-> "Empty command"]
  ELSE IF ExceedsLength(self, command)
    THEN [valid |-> FALSE, reason |-> "Command too long"]
  ELSE The({Parsed(self, command, split) : split \in {ShlexSplit(command)}})

\* the verdict validate_command(command) returns: a dict, with the keys the
\* return statement taken gives it
validate_command(self, raw) ==
  The({Checked(self, command) : command \in {Strip(raw)}})

\* an except clause that catches nothing
ExceptNothing == {}

\* line 207: except ValueError
ExceptClause == {"ValueError"}

\* the exception that leaves validate_command(raw), None when the call
\* returns: shlex.split raises ValueError inside the try of lines 201-208
Raised(self, raw) ==
  The({IF /\ command # <<>>
          /\ ~ExceedsLength(self, command)
          /\ ~ShlexSplit(command).ok
          /\ "ValueError" \notin ExceptClause
       THEN Some("ValueError") ELSE None : command \in {Strip(raw)}})

\* verdict.get(key, default)
Get(verdict, key, default) ==
  IF key \in DOMAIN verdict THEN verdict[key] ELSE default

\* verdict.get("risk_level"), "absent" when the verdict has no such key
RiskOf(v) == Get(v, "risk_level", "absent")

(***************************************************************************)
(* BackupManager.  The file system is a record: files maps the absolute    *)
(* path of a file outside the backup directory to its content (a sequence  *)
(* of blocks), backups maps the name of a file in the backup directory to  *)
(* its content, clock is the position of the wall clock in Timestamps.     *)
(***************************************************************************)

\* str.replace(old, new), for one-character old and new
Replace(s, old, new) == [i \in 1..Len(s) |-> IF s[i] = old THEN new ELSE s[i]]

RECURSIVE Split(_, _)
\* str.split(sep), for a one-character sep
Split(s, sep) ==
  IF ~Contains(s, sep) THEN <<s>>
  ELSE The({<<SubSeq(s, 1, i - 1)>> \o Split(SubSeq(s, i + 1, Len(s)), sep) :
              i \in {SetMin({j \in 1..Len(s) : s[j] = sep})}})

RECURSIVE JoinChars(_, _)
\* sep.join(parts)
JoinChars(sep, parts) ==
  IF parts = <<>> THEN <<>>
  ELSE IF Len(parts) = 1 THEN parts[1]
  ELSE parts[1] \o sep \o JoinChars(sep, Tail(parts))

\* Path.home() and the working directory of the process
Home == <<"/","h","o","m","e","/","u","s","e","r">>
Cwd == <<"/","h","o","m","e","/","u","s","e","r">>

\* self.backup_dir
BackupDir == Home \o <<"/",".","l","o","c","a","l","/","s","h","a","r","e","/","a","i","-","t","e","r","m","i","n","a","l","-","a","s","s","i","s","t","a","n","t","/","b","a","c","k","u","p","s">>

\* what time.strftime("%Y%m%d_%H%M%S") returns, second after second
Timestamps == <<<<"2","0","2","4","0","1","0","1","_","1","2","0","0","0","0">>, <<"2","0","2","4","0","1","0","1","_","1","2","0","0","0","1">>>>

\* Path(p).expanduser(): a leading ~ becomes the home directory
ExpandUser(p) ==
  IF p = <<"~">> THEN Home
  ELSE IF StartsWith(p, <<"~","/">>) THEN Home \o SubSeq(p, 2, Len(p))
  ELSE p

\* Path(p).expanduser().resolve(), for paths without symbolic links, "." or "..":
\* a relative path is taken from the working directory
Resolve(p) ==
  The({IF StartsWith(q, <<"/">>) THEN q ELSE Cwd \o <<"/">> \o q : q \in {ExpandUser(p)}})

\* lines 34-36: the name of the backup file
BackupFilename(source_path, timestamp) ==
  LStrip(Replace(source_path, "/", "_"), {"_"}) \o <<"_">> \o timestamp

\* str(self.backup_dir / name)
BackupPath(name) == BackupDir \o <<"/">> \o name

\* the file name of a path inside the backup directory
BackupName(backup_path) ==
  SubSeq(backup_path, Len(BackupDir) + 2, Len(backup_path))

\* a directory with the file name holding content
Put(dir, name, content) ==
  [n \in DOMAIN dir \cup {name} |-> IF n = name THEN content ELSE dir[n]]

\* the ways shutil.copy2 of a file with this content can end: it fails before
\* the destination is opened, or after the destination was opened (created or
\* truncated) and some of the blocks were written, or after all blocks were
\* written (copystat fails), or it succeeds
CopyOutcomes(content) ==
  {[opened |-> FALSE, written |-> 0, ok |-> FALSE]}
    \cup {[opened |-> TRUE, written |-> k, ok |-> FALSE] : k \in 0..Len(content)}
    \cup {[opened |-> TRUE, written |-> Len(content), ok |-> TRUE]}

\* shutil.copy2(source, dir / name): the directory after the copy
Copy2(dir, name, content, outcome) ==
  IF outcome.opened
  THEN Put(dir, name, SubSeq(content, 1, SetMin({outcome.written, Len(content)})))
  ELSE dir

\* BackupManager.create_backup(file_path), its copy ending as outcome says:
\* the file system it leaves and the value it returns
create_backup(disk, file_path, outcome) ==
  The({IF source_path \notin DOMAIN disk.files
         THEN [disk |-> disk, result |-> None]
       ELSE The({[disk   |-> [disk EXCEPT !.backups =
                                 Copy2(@, name, disk.files[source_path], outcome)],
                  result |-> IF outcome.ok THEN Some(BackupPath(name)) ELSE None] :
                   name \in {BackupFilename(source_path, Timestamps[disk.clock])}}) :
        source_path \in {Resolve(file_path)}})

\* lines 57-62 and 83-86: the original path a backup file name stands for
OriginalPath(name) ==
  The({The({IF StartsWith(joined, <<"/">>) THEN joined ELSE <<"/">> \o joined :
              joined \in {Replace(JoinChars(<<"_">>, SubSeq(parts, 1, Len(parts) - 2)),
                                  "_", "/")}}) :
        parts \in {Split(name, "_")}})

\* lines 58-70: the entry list_backups makes for a backup file
BackupEntry(name, content) ==
  The({[original_path |-> OriginalPath(name),
        backup_path   |-> BackupPath(name),
        timestamp     |-> parts[Len(parts) - 1] \o <<"_">> \o parts[Len(parts)],
        size          |-> Len(content)] : parts \in {Split(name, "_")}})

DigitChars == <<"0", "1", "2", "3", "4", "5", "6", "7", "8", "9">>

\* the order of the characters of a timestamp: the digits, then the rest
CharRank(c) ==
  IF c \in Digits THEN CHOOSE k \in DOMAIN DigitChars : DigitChars[k] = c
  ELSE Len(DigitChars) + 1

RECURSIVE StrLess(_, _)
\* a < b for strings
StrLess(a, b) ==
  IF b = <<>> THEN FALSE
  ELSE IF a = <<>> THEN TRUE
  ELSE IF Head(a) # Head(b) THEN CharRank(Head(a)) < CharRank(Head(b))
  ELSE StrLess(Tail(a), Tail(b))

RECURSIVE SortedNewestFirst(_)
\* sorted(backups, key=timestamp, reverse=True); entries with equal
\* timestamps come in the order the directory listing gave them
SortedNewestFirst(entries) ==
  IF entries = {} THEN <<>>
  ELSE The({<<first>> \o SortedNewestFirst(entries \ {first}) :
              first \in {CHOOSE e \in entries :
                           \A f \in entries : ~StrLess(e.timestamp, f.timestamp)}})

\* BackupManager.list_backups(file_path)
list_backups(disk, file_path) ==
  SortedNewestFirst(
    {entry \in {BackupEntry(name, disk.backups[name]) :
                  name \in {n \in DOMAIN disk.backups : Len(Split(n, "_")) >= 3}} :
       IsNone(file_path) \/ entry.original_path = Value(file_path)})

\* lines 81-88: the file restore_backup writes
RestoreTarget(backup_path, target_path) ==
  ExpandUser(IF IsNone(target_path)
             THEN OriginalPath(BackupName(backup_path))
             ELSE Value(target_path))

\* the directory a path lies in
Parent(path) ==
  IF Contains(path, "/")
  THEN SubSeq(path, 1, SetMax({i \in 1..Len(path) : path[i] = "/"}) - 1)
  ELSE Cwd

\* the directory exists: the home directory lies in it or under it, or a
\* file lies under it
DirExists(disk, dir) ==
  \/ StartsWith(Home \o <<"/">>, dir \o <<"/">>)
  \/ \E f \in DOMAIN disk.files : StartsWith(f, dir \o <<"/">>)

\* BackupManager.restore_backup(backup_path, target_path): the snapshot of
\* the current target ends as snapshot says, the copy onto the target as
\* outcome says; the copy cannot open a target whose directory is missing
restore_backup(disk, backup_path, target_path, snapshot, outcome) ==
  IF \/ ~StartsWith(backup_path, BackupDir \o <<"/">>)
     \/ BackupName(backup_path) \notin DOMAIN disk.backups
    THEN [disk |-> disk, result |-> FALSE]
  ELSE The({The({IF ~DirExists(saved, Parent(target_file))
                   THEN [disk |-> saved, result |-> FALSE]
                 ELSE [disk   |-> [saved EXCEPT !.files =
                                     Copy2(@, target_file, saved.backups[name], outcome)],
                       result |-> outcome.ok] :
                   saved \in {IF target_file \in DOMAIN disk.files
                               THEN create_backup(disk, target_file, snapshot).disk
                               ELSE disk}}) :
              name \in {BackupName(backup_path)},
              target_file \in {RestoreTarget(backup_path, target_path)}})

(***************************************************************************)
(* ConfigManager.  A dict is an object of the heap: a function from its    *)
(* keys to cells, a cell being a plain value or a reference to a dict.     *)
(***************************************************************************)

Leaf(v) == [leaf |-> v]
Ref(id) == [ref |-> id]

\* isinstance(value, dict)
IsDict(cell) == "ref" \in DOMAIN cell

\* one step of the loop, were it dict.update: base[key] = value always
MergeItemShallow(heap, base, override, key) ==
  [heap EXCEPT ![base] = Put(@, key, heap[override][key])]

RECURSIVE MergeItem(_, _, _, _), MergeItems(_, _, _, _), _deep_merge(_, _, _)

\* lines 186-189: one step of the loop
MergeItem(heap, base, override, key) ==
  The({IF key \in DOMAIN heap[base] /\ IsDict(heap[base][key]) /\ IsDict(value)
         THEN _deep_merge(heap, heap[base][key].ref, value.ref)
       ELSE [heap EXCEPT ![base] = Put(@, key, value)] :
        value \in {heap[override][key]}})

\* line 185: the loop over the items of override that are left
MergeItems(heap, base, override, keys) ==
  IF keys = {} THEN heap
  ELSE The({MergeItems(MergeItem(heap, base, override, key), base, override,
                       keys \ {key}) :
              key \in {CHOOSE k \in keys : TRUE}})

\* ConfigManager._deep_merge(base, override): the heap it leaves
_deep_merge(heap, base, override) ==
  MergeItems(heap, base, override, DOMAIN heap[override])

\* the directory after reset_config, were it to remove config.yaml only
reset_config_file_only(dir) == [dir EXCEPT !.user_config = None]

\* ConfigManager._store_api_key(api_key)
_store_api_key(dir, api_key) == [dir EXCEPT !.api_key = Some(api_key)]

\* ConfigManager.get_api_key()
get_api_key(dir) ==
  IF ~IsNone(dir.api_key) THEN Some(Strip(Value(dir.api_key))) ELSE None

\* ConfigManager._save_config(config)
_save_config(dir, config) == [dir EXCEPT !.user_config = Some(config)]

\* ConfigManager.is_configured()
is_configured(dir) == ~IsNone(get_api_key(dir))

\* ConfigManager.reset_config()
reset_config(dir) == [dir EXCEPT !.user_config = None, !.api_key = None]

RECURSIVE Deref(_, _)
\* a cell with the dicts it refers to written out, as yaml.dump writes it
Deref(heap, cell) ==
  IF IsDict(cell)
  THEN [items |-> [k \in DOMAIN heap[cell.ref] |-> Deref(heap, heap[cell.ref][k])]]
  ELSE cell

\* the written-out value is a dict
IsDictValue(value) == "items" \in DOMAIN value

RECURSIVE Load(_, _), LoadItems(_, _, _, _)
\* yaml.safe_load, and a dict literal: the value becomes fresh objects of the
\* heap
Load(heap, value) ==
  IF IsDictValue(value)
  THEN LoadItems(Append(heap, <<>>), Len(heap) + 1, value.items, DOMAIN value.items)
  ELSE [heap |-> heap, cell |-> value]

LoadItems(heap, id, items, keys) ==
  IF keys = {} THEN [heap |-> heap, cell |-> Ref(id)]
  ELSE The({The({LoadItems([loaded.heap EXCEPT ![id] = Put(@, key, loaded.cell)],
                           id, items, keys \ {key}) :
                   loaded \in {Load(heap, items[key])}}) :
              key \in {CHOOSE k \in keys : TRUE}})

\* a dict of plain values
Dict(values) == [items |-> [k \in DOMAIN values |-> Leaf(values[k])]]

\* ConfigManager.DEFAULT_CONFIG as the class body writes it
DefaultConfig ==
  [items |->
     [api      |-> Dict([provider |-> "openai", model |-> "gpt-4o-mini",
                         timeout |-> 30, max_tokens |-> 200]),
      security |-> Dict([require_confirmation |-> TRUE, block_dangerous_commands |-> TRUE,
                         log_commands |-> TRUE, max_command_length |-> 1000]),
      ui       |-> Dict([color_output |-> TRUE, show_progress |-> TRUE,
                         truncate_output |-> 50])]]

\* lines 156-163 and 166-173: a config file that exists and holds a non-empty
\* dict is loaded and merged into config; any other content is passed over
MergeFile(heap, config_id, file) ==
  IF IsNone(file) \/ ~IsDictValue(Value(file)) THEN heap
  ELSE IF DOMAIN Value(file).items = {} THEN heap
  ELSE The({_deep_merge(loaded.heap, config_id, loaded.cell.ref) :
              loaded \in {Load(heap, Value(file))}})

\* line 153: self.DEFAULT_CONFIG.copy(), a new dict with the cells of object 1
CopyShallow(heap) == Append(heap, heap[1])

\* ConfigManager.get_config(), DEFAULT_CONFIG being object 1 of the heap: the
\* heap it leaves and the dict it returns
get_config(heap, dir) ==
  The({[heap |-> MergeFile(MergeFile(copied, Len(heap) + 1, dir.system_config),
                           Len(heap) + 1, dir.user_config),
        config |-> Len(heap) + 1] :
         copied \in {CopyShallow(heap)}})

\* line 86
Models == <<"gpt-4o-mini", "gpt-4o", "gpt-3.5-turbo">>

\* choice.isdigit()
IsDigit(choice) == choice # <<>> /\ \A i \in 1..Len(choice) : choice[i] \in Digits

RECURSIVE ToInt(_)
\* int(choice) of a digit string
ToInt(choice) ==
  IF choice = <<>> THEN 0
  ELSE 10 * ToInt(SubSeq(choice, 1, Len(choice) - 1)) + (CharRank(choice[Len(choice)]) - 1)

\* lines 93-107: the model chosen and the three answers are written into the
\* dicts config["api"] and config["security"]
Answered(heap, config_id, choice, confirm, dangerous, logging) ==
  The({[heap EXCEPT
          ![api] = IF IsDigit(choice) /\ 1 <= ToInt(choice) /\ ToInt(choice) <= Len(Models)
                   THEN Put(@, "model", Leaf(Models[ToInt(choice)])) ELSE @,
          ![security] = Put(Put(Put(@, "require_confirmation", Leaf(confirm # <<"n">>)),
                                "block_dangerous_commands", Leaf(dangerous # <<"n">>)),
                            "log_commands", Leaf(logging # <<"n">>))] :
         api \in {heap[config_id]["api"].ref},
         security \in {heap[config_id]["security"].ref}})

\* ConfigManager.setup_config(), DEFAULT_CONFIG being object 1 of the heap:
\* the heap and the directory it leaves
setup_config(heap, dir, api_key, choice, confirm, dangerous, logging) ==
  The({The({[heap |-> answered,
             dir  |-> _save_config(IF IsNone(api_key) THEN dir
                                   ELSE _store_api_key(dir, Value(api_key)),
                                   Deref(answered, Ref(got.config)))] :
              answered \in {Answered(got.heap, got.config, choice, confirm,
                                     dangerous, logging)}}) :
         got \in {get_config(heap, dir)}})

(***************************************************************************)
(* The components at rest                                                  *)
(***************************************************************************)

\* a file system with no file
EmptyDisk == [files |-> <<>>, backups |-> <<>>, clock |-> 1]

\* no BackupManager method was called; name and before are the name of the
\* backup file the call is about, and the content that file had before;
\* target is the target_path argument of restore_backup
NoCall ==
  [op |-> "none", argument |-> None, target |-> None, result |-> None, name |-> None,
   before |-> None]

\* the config files after ConfigManager() on a fresh machine: no api_key file,
\* no config.yaml of the user and no system config.yaml; ops are the calls
\* made since, answer is what the last is_configured() returned
FreshConfigDir ==
  [api_key |-> None, user_config |-> None, system_config |-> None, ops |-> <<>>,
   answer |-> None]

\* no _deep_merge call; before is the heap as the call found it
NoMerge == [pc |-> "idle", heap |-> <<>>, base |-> 0, override |-> 0, before |-> <<>>]

\* the assistant between requests: what it validated, asked, backed up and
\* executed for the last request is kept until the next one starts
NoRequest ==
  [pc |-> "idle", path |-> "none", command |-> <<>>, validation |-> None,
   backup_created |-> None, validated |-> {}, answers |-> {}, backed_up |-> {},
   executed |-> None, displayed |-> None]

(***************************************************************************)
(* Inputs                                                                  *)
(***************************************************************************)

Commands ==
  {<<>>, <<" "," "," ">>, <<" ","l","s"," ","-","l","a"," ">>,
   <<"l","s"," ","-","l","a">>, <<"p","s"," ","a","u","x">>, <<"d","f"," ","-","h">>, <<"d","f"," ","-","h"," ","/">>, <<"g","r","e","p"," ","-","r"," ","'","e","r","r","o","r","'"," ",".">>,
   <<"f","i","n","d"," ","."," ","-","n","a","m","e"," ","'","*",".","p","y","'">>,
   <<"r","m"," ","-","r","f"," ","/">>, <<"d","d"," ","i","f","=","/","d","e","v","/","z","e","r","o"," ","o","f","=","/","d","e","v","/","s","d","a">>, <<"m","k","f","s",".","e","x","t","4"," ","/","d","e","v","/","s","d","a","1">>,
   <<"c","u","r","l"," ","m","a","l","i","c","i","o","u","s",".","c","o","m"," ","|"," ","s","h">>,
   <<"c","p"," ","f","i","l","e","1"," ","f","i","l","e","2">>, <<"m","v"," ","o","l","d","n","a","m","e"," ","n","e","w","n","a","m","e">>, <<"c","h","m","o","d"," ","7","5","5"," ","s","c","r","i","p","t",".","s","h">>, <<"m","k","d","i","r"," ","n","e","w","d","i","r">>,
   <<"e","c","h","o"," ","'","x">>, <<"r","m"," ","-","r","f"," ","/"," ","'">>, <<"l","s"," ","\\">>, <<"'","'">>,
   <<"m","k","f","s"," ","/","d","e","v","/","s","d","a","1">>, <<"D","D"," ","i","f","=","a"," ","o","f","=","b">>, <<"r","e","b","o","o","t">>,
   <<"R","M"," ","-","R","F"," ","/","t","m","p">>, <<"r","m"," ","-","r"," ","t","m","p">>, <<"c","h","m","o","d"," ","7","7","7"," ","/","s","r","v">>,
   <<"e","c","h","o"," ","h","i"," ",">"," ","/","e","t","c","/","h","o","s","t","s">>, <<"e","c","h","o"," ","h","i"," ",">",">"," ","/","e","t","c","/","h","o","s","t","s">>, <<"e","c","h","o"," ","x"," ",">"," ","/","e","t","c","/","p","a","s","s","w","d">>,
   <<"e","c","h","o"," ","x"," ",">"," ","/","b","o","o","t","/","g","r","u","b",".","c","f","g">>, <<"l","s"," ",">"," ","o","u","t",".","t","x","t">>, <<"l","s"," ","2",">","&","1">>, <<"c","a","t"," ","a"," ",">"," ","/","d","e","v","/","n","u","l","l">>,
   <<"v","i","m"," ","/","e","t","c","/","p","a","s","s","w","d">>, <<"n","a","n","o"," ","~","/",".","b","a","s","h","r","c">>, <<"s","u","d","o"," ","v","i","m"," ","/","e","t","c","/","n","g","i","n","x","/","n","g","i","n","x",".","c","o","n","f">>,
   <<"v","i","m"," ","-","-","x",".","i","n","i"," ","/","e","t","c","/","h","o","s","t","s">>, <<"c","o","d","e"," ","n","o","t","e","s",".","t","x","t">>, <<"v","i"," ","a",".","y","m","l">>,
   <<":","(",")","{"," ",":","|",":","&"," ","}",";",":">>, <<":","(",")","{"," ",":","|",":","&"," ","}",":">>}

\* the values of max_command_length tried
MaxLengths == {6, 1000}

\* security configs with every key, and with one key left out
Configs ==
  [require_confirmation : BOOLEAN, block_dangerous_commands : BOOLEAN,
   max_command_length : MaxLengths]
  \cup [require_confirmation : BOOLEAN, block_dangerous_commands : BOOLEAN]
  \cup [require_confirmation : BOOLEAN, max_command_length : MaxLengths]
  \cup [block_dangerous_commands : BOOLEAN, max_command_length : MaxLengths]

\* the commands replayed to compare a call with an earlier one
HistoryCommands ==
  {<<" ","l","s"," ","-","l","a"," ">>, <<"r","m"," ","-","r","f"," ","/">>, <<"r","m"," ","-","r"," ","t","m","p">>, <<"r","e","b","o","o","t">>, <<"d","f"," ","-","h"," ","/">>, <<"e","c","h","o"," ","'","x">>,
   <<"c","p"," ","f","i","l","e","1"," ","f","i","l","e","2">>, <<"e","c","h","o"," ","h","i"," ",">"," ","/","e","t","c","/","h","o","s","t","s">>, <<"v","i","m"," ","/","e","t","c","/","p","a","s","s","w","d">>, <<"R","M"," ","-","R","F"," ","/","t","m","p">>}

\* the commands and configs of the concurrent callers
ConcCommands == {<<"r","m"," ","-","r","f"," ","/">>, <<"r","e","b","o","o","t">>, <<"e","c","h","o"," ","x"," ",">"," ","/","b","o","o","t","/","g","r","u","b",".","c","f","g">>}

ConcConfigs ==
  {[require_confirmation |-> TRUE, block_dangerous_commands |-> TRUE,
    max_command_length |-> 1000],
   [require_confirmation |-> FALSE, block_dangerous_commands |-> FALSE,
    max_command_length |-> 1000]}

\* the number of threads that call validate_command on the one validator
NumThreads == 2

Threads == 1..NumThreads

(***************************************************************************)
(* The state machine: one validator object, on which the caller calls     *)
(* validate_command, acts on the verdict and drops it                      *)
(***************************************************************************)

VARIABLES
  validator,   \* the CommandValidator object: its config and its tables
  pc,          \* "idle", "returned" when a call has returned its verdict,
               \* "raised" when an exception left it
  command,     \* the argument of the call that returned
  verdict,     \* the verdict it returned
  remembered,  \* an earlier call and its verdict, kept for comparison
  frames,      \* per thread, the locals of its validate_command invocation
  assistant,   \* the request the AITerminalAssistant is handling
  disk,        \* the file system the BackupManager works on
  backup_call, \* the last call of a BackupManager method and what it returned
  config_dir,  \* the directory of the ConfigManager
  merge,       \* the dicts of a _deep_merge call
  conversation_history, \* the messages the AITerminalAssistant keeps
  DEFAULT_CONFIG,       \* the class attribute of ConfigManager
  last_config  \* what the last get_config() returned

vars == <<validator, pc, command, verdict, remembered, frames,
          assistant, disk, backup_call, config_dir, merge,
          conversation_history, DEFAULT_CONFIG, last_config>>

\* what a call of validate_command leaves alone
others == <<assistant, disk, backup_call, config_dir, merge,
            conversation_history, DEFAULT_CONFIG, last_config>>

\* no message was exchanged, the class attribute is as the class body wrote
\* it, and get_config was not called
AtRest ==
  /\ conversation_history = <<>>
  /\ DEFAULT_CONFIG = DefaultConfig
  /\ last_config = None

NoVerdict == [valid |-> FALSE, reason |-> ""]

\* the locals of a thread that is not inside validate_command
IdleFrame ==
  [pc |-> "idle", raw |-> <<>>, command |-> <<>>, command_parts |-> <<>>,
   base_command |-> <<>>, detected_pattern |-> None, config_editing |-> None,
   result |-> NoVerdict]

Init ==
  /\ validator \in {NewValidator(config) : config \in Configs}
  /\ pc = "idle"
  /\ command = <<>>
  /\ verdict = NoVerdict
  /\ remembered = None
  /\ frames = [t \in Threads |-> IdleFrame]
  /\ assistant = NoRequest
  /\ disk = EmptyDisk
  /\ backup_call = NoCall
  /\ config_dir = FreshConfigDir
  /\ merge = NoMerge
  /\ AtRest

\* the call adds a command to the dangerous set once it has blocked it
CallLearning(cmd) ==
  /\ pc = "idle"
  /\ pc' = "returned"
  /\ command' = cmd
  /\ verdict' = validate_command(validator, cmd)
  /\ validator' =
       IF RiskOf(verdict') = "CRITICAL"
       THEN [validator EXCEPT !.DANGEROUS_COMMANDS =
               @ \cup {ToStr(Lower(ShlexSplit(Strip(cmd)).parts[1]))}]
       ELSE validator

\* verdict = self.validator.validate_command(cmd): the method assigns to no
\* attribute of the validator; the call returns a verdict unless an exception
\* leaves it
Call(cmd) ==
  /\ pc = "idle"
  /\ pc' = IF IsNone(Raised(validator, cmd)) THEN "returned" ELSE "raised"
  /\ command' = cmd
  /\ verdict' = validate_command(validator, cmd)
  /\ UNCHANGED validator

\* the caller is done with the verdict
Return ==
  /\ pc = "returned"
  /\ pc' = "idle"
  /\ command' = <<>>
  /\ verdict' = NoVerdict
  /\ UNCHANGED validator

Validate == \E cmd \in Commands : Call(cmd) /\ UNCHANGED <<remembered, frames, others>>

Discard == Return /\ UNCHANGED <<remembered, frames, others>>

Next == Validate \/ Discard

Spec == Init /\ [][Next]_vars

(***************************************************************************)
(* The same machine with one earlier call kept, to compare a later call    *)
(* of the same command with it                                             *)
(***************************************************************************)

Replay == \E cmd \in HistoryCommands : Call(cmd) /\ UNCHANGED <<remembered, frames, others>>

Keep ==
  /\ Return
  /\ remembered' = Some([command |-> command, verdict |-> verdict])
  /\ UNCHANGED <<frames, others>>

NextHistory == Replay \/ Keep \/ Discard

SpecHistory == Init /\ [][NextHistory]_vars

(***************************************************************************)
(* Threads inside validate_command on one shared validator.  A step is the *)
(* code between two reads of the validator's attributes; everything else   *)
(* a thread uses is local to its invocation.                               *)
(***************************************************************************)

\* the attribute as another invocation left it, were base_command kept on
\* the validator instead of in a local
SharedBaseCommand(t) ==
  LET inside == {u \in Threads : frames[u].pc \notin {"idle", "check"}}
  IN  frames[SetMax(inside)].base_command

\* the local base_command of the thread's invocation (line 206)
LocalBaseCommand(t) == frames[t].base_command

Finish(t, result) ==
  frames' = [frames EXCEPT ![t].pc = "done", ![t].result = result]

Goto(t, label) == frames' = [frames EXCEPT ![t].pc = label]

\* a thread enters validate_command(cmd)
Enter(t, cmd) ==
  /\ frames[t].pc = "idle"
  /\ frames' = [frames EXCEPT ![t] = [IdleFrame EXCEPT !.pc = "check", !.raw = cmd]]

\* lines 192-208: strip, the empty and length checks, tokenization
CheckStep(t) ==
  /\ frames[t].pc = "check"
  /\ \E stripped \in {Strip(frames[t].raw)} :
       IF stripped = <<>>
         THEN Finish(t, [valid |-> FALSE, reason |-> "Empty command"])
       ELSE IF ExceedsLength(validator, stripped)
         THEN Finish(t, [valid |-> FALSE, reason |-> "Command too long"])
       ELSE \E split \in {ShlexSplit(stripped)} :
         IF ~split.ok
           THEN Finish(t, [valid |-> FALSE, reason |-> "Invalid syntax: " \o split.error])
         ELSE IF split.parts = <<>>
           THEN Finish(t, [valid |-> FALSE, reason |-> "Unable to parse command"])
         ELSE frames' = [frames EXCEPT ![t].pc = "critical",
                                       ![t].command = stripped,
                                       ![t].command_parts = split.parts,
                                       ![t].base_command = Lower(split.parts[1])]

\* lines 211-218
CriticalStep(t) ==
  /\ frames[t].pc = "critical"
  /\ IF CriticalDetected(validator, frames[t].command)
     THEN Finish(t, [valid |-> FALSE,
                     reason |-> "Critical security pattern detected - command blocked",
                     risk_level |-> "CRITICAL"])
     ELSE Goto(t, "dangerous")

\* lines 221-228
DangerousStep(t) ==
  /\ frames[t].pc = "dangerous"
  /\ IF DangerousBlocked(validator, LocalBaseCommand(t))
     THEN Finish(t, [valid |-> FALSE,
                     reason |-> "Dangerous command blocked: " \o ToStr(LocalBaseCommand(t)),
                     risk_level |-> "HIGH"])
     ELSE Goto(t, "warning")

\* lines 231-237
WarningStep(t) ==
  /\ frames[t].pc = "warning"
  /\ frames' = [frames EXCEPT ![t].pc = "editing",
                              ![t].detected_pattern =
                                 DetectedPattern(validator, frames[t].command)]

\* line 240
EditingStep(t) ==
  /\ frames[t].pc = "editing"
  /\ frames' = [frames EXCEPT ![t].pc = "confirm",
                              ![t].config_editing =
                                 Some(_is_config_editing_command(
                                        validator, frames[t].command,
                                        frames[t].command_parts))]

\* lines 243-280
ConfirmStep(t) ==
  /\ frames[t].pc = "confirm"
  /\ Finish(t, Verdict(validator, LocalBaseCommand(t), frames[t].detected_pattern,
                       Value(frames[t].config_editing)))

\* the caller takes the verdict
Leave(t) ==
  /\ frames[t].pc = "done"
  /\ frames' = [frames EXCEPT ![t] = IdleFrame]

ConcFrame == UNCHANGED <<validator, pc, command, verdict, remembered, others>>

ThreadEnter == \E t \in Threads, cmd \in ConcCommands : Enter(t, cmd) /\ ConcFrame
ThreadCheck == \E t \in Threads : CheckStep(t) /\ ConcFrame
ThreadCritical == \E t \in Threads : CriticalStep(t) /\ ConcFrame
ThreadDangerous == \E t \in Threads : DangerousStep(t) /\ ConcFrame
ThreadWarning == \E t \in Threads : WarningStep(t) /\ ConcFrame
ThreadEditing == \E t \in Threads : EditingStep(t) /\ ConcFrame
ThreadConfirm == \E t \in Threads : ConfirmStep(t) /\ ConcFrame
ThreadLeave == \E t \in Threads : Leave(t) /\ ConcFrame

NextConc ==
  \/ ThreadEnter \/ ThreadCheck \/ ThreadCritical \/ ThreadDangerous
  \/ ThreadWarning \/ ThreadEditing \/ ThreadConfirm \/ ThreadLeave

InitConc ==
  /\ validator \in {NewValidator(config) : config \in ConcConfigs}
  /\ pc = "idle"
  /\ command = <<>>
  /\ verdict = NoVerdict
  /\ remembered = None
  /\ frames = [t \in Threads |-> IdleFrame]
  /\ assistant = NoRequest
  /\ disk = EmptyDisk
  /\ backup_call = NoCall
  /\ config_dir = FreshConfigDir
  /\ merge = NoMerge
  /\ AtRest

SpecConc == InitConc /\ [][NextConc]_vars
(***************************************************************************)
(* AITerminalAssistant: process_request and _handle_conversation.  The     *)
(* command is whatever the language model answered; the user answers each  *)
(* prompt as they please.                                                  *)
(***************************************************************************)

\* the commands the language model may answer with
AssistantCommands ==
  {<<"l","s"," ","-","l","a">>, <<"c","p"," ","f","i","l","e","1"," ","f","i","l","e","2">>, <<"n","a","n","o"," ","~","/",".","b","a","s","h","r","c">>, <<"v","i","m"," ","/","e","t","c","/","p","a","s","s","w","d">>,
   <<"e","c","h","o"," ","h","i"," ",">"," ","/","e","t","c","/","h","o","s","t","s">>, <<"r","m"," ","-","r","f"," ","/">>, <<"r","e","b","o","o","t">>, <<"e","c","h","o"," ","'","x">>}

\* DEFAULT_CONFIG["security"]
DefaultSecurityConfig ==
  [require_confirmation |-> TRUE, block_dangerous_commands |-> TRUE,
   log_commands |-> TRUE, max_command_length |-> 1000]

\* config["security"]: the defaults, and the same with require_confirmation
\* turned off by setup_config
AssistantConfigs ==
  {[DefaultSecurityConfig EXCEPT !.require_confirmation = rc] : rc \in BOOLEAN}

\* the files of the machine the assistant runs on
AssistantDisk ==
  [files   |-> (<<"/","h","o","m","e","/","u","s","e","r","/",".","b","a","s","h","r","c">> :> <<"a", "b">>) @@ (<<"/","e","t","c","/","p","a","s","s","w","d">> :> <<"c">>),
   backups |-> <<>>,
   clock   |-> 1]

\* the check of lines 214 and 609, were it to let every verdict through
BlockedNever(validation) == FALSE

\* lines 214 and 609: if not validation["valid"]
Blocked(validation) == ~validation.valid

\* lines 236 and 614: validation.get("needs_confirmation", False)
AsksConfirmation(validation) == Get(validation, "needs_confirmation", FALSE)

\* line 226: the file create_backup is called for, None when the verdict
\* recommends no backup or names no file
BackupTarget(validation) ==
  IF /\ Get(validation, "backup_recommended", FALSE)
     /\ "config_editing" \in DOMAIN validation
     /\ ~IsNone(validation.config_editing.file_path)
     /\ Value(validation.config_editing.file_path) # <<>>
  THEN validation.config_editing.file_path
  ELSE None

\* the ways the copy inside create_backup(file_path) can end
BackupOutcomes(file_path) ==
  IF Resolve(file_path) \in DOMAIN disk.files
  THEN CopyOutcomes(disk.files[Resolve(file_path)])
  ELSE CopyOutcomes(<<>>)

\* what the assistant leaves alone, its messages apart
RequestFrame ==
  UNCHANGED <<validator, pc, command, verdict, remembered, frames, backup_call,
              config_dir, merge, DEFAULT_CONFIG, last_config>>

AssistantFrame == RequestFrame /\ UNCHANGED conversation_history

\* validation = self.validator.validate_command(command) and the check of
\* its valid field; a blocked command ends the request
ValidateThen(here, next) ==
  /\ assistant.pc = here
  /\ \E validation \in {validate_command(validator, assistant.command)} :
       assistant' = [assistant EXCEPT
                       !.validation = Some(validation),
                       !.validated = @ \cup {[command |-> assistant.command,
                                              verdict |-> validation]},
                       !.pc = IF Blocked(validation) THEN "idle" ELSE next]

\* the confirmation prompt, asked when the verdict needs it; "no" ends the
\* request
ConfirmThen(here, prompt, next) ==
  /\ assistant.pc = here
  /\ IF AsksConfirmation(Value(assistant.validation))
     THEN \E answer \in BOOLEAN :
            assistant' = [assistant EXCEPT
                            !.answers = @ \cup {[prompt |-> prompt, answer |-> answer]},
                            !.pc = IF answer THEN next ELSE "idle"]
     ELSE assistant' = [assistant EXCEPT !.pc = next]

\* result = self._execute_command(command), then the logging and display
ExecuteAt(here) ==
  /\ assistant.pc = here
  /\ assistant' = [assistant EXCEPT !.executed = Some(assistant.command), !.pc = "idle"]

\* process_request, lines 179-199: the command is generated
Generate ==
  /\ assistant.pc = "idle"
  /\ \E success \in BOOLEAN, cmd \in AssistantCommands \cup {<<>>} :
       assistant' = IF success /\ cmd # <<>>
                    THEN [NoRequest EXCEPT !.pc = "validate", !.path = "process_request",
                                           !.command = cmd]
                    ELSE [NoRequest EXCEPT !.path = "process_request"]
  /\ UNCHANGED disk /\ AssistantFrame

\* lines 212-217
ProcessValidate == ValidateThen("validate", "backup") /\ UNCHANGED disk /\ AssistantFrame

\* lines 224-233: the backup of the file the command edits
ProcessBackup ==
  /\ assistant.pc = "backup"
  /\ \E target \in {BackupTarget(Value(assistant.validation))} :
       IF IsNone(target)
       THEN assistant' = [assistant EXCEPT !.pc = "confirm"] /\ UNCHANGED disk
       ELSE \E outcome \in BackupOutcomes(Value(target)) :
              \E made \in {create_backup(disk, Value(target), outcome)} :
                /\ disk' = made.disk
                /\ assistant' = [assistant EXCEPT
                                   !.pc = "confirm",
                                   !.backup_created = made.result,
                                   !.backed_up = @ \cup {Value(target)}]
  /\ AssistantFrame

\* lines 236-252
ProcessConfirm ==
  ConfirmThen("confirm", "Do you want to proceed?", "execute")
    /\ UNCHANGED disk /\ AssistantFrame

\* lines 254-269
ProcessExecute == ExecuteAt("execute") /\ UNCHANGED disk /\ AssistantFrame

\* the requests of the user in interactive mode
UserMessages == {"how does cron work"}

\* the most messages the history may hold for the assistant to take one more
\* conversational input while it is followed request by request
MaxHistory == 1

\* line 439
HistoryLimit == 20

\* _chat_response(user_message), lines 436-456: the history it leaves; reply
\* is None when the API call raised
_chat_response(history, user_message, reply) ==
  The({The({IF IsNone(reply) THEN kept
            ELSE Append(kept, [role |-> "assistant", content |-> Value(reply)]) :
              kept \in {IF Len(appended) > HistoryLimit
                        THEN SubSeq(appended, Len(appended) - HistoryLimit + 1, Len(appended))
                        ELSE appended}}) :
         appended \in {Append(history, [role |-> "user", content |-> user_message])}})

\* _handle_conversation, lines 585-600: the reply is added to the history,
\* and a command may be found in it
HandleConversation(commands) ==
  /\ assistant.pc = "idle"
  /\ \E user_message \in UserMessages, success \in BOOLEAN, cmd \in commands :
       /\ conversation_history' =
            _chat_response(conversation_history, user_message,
                           IF success THEN Some("reply") ELSE None)
       /\ assistant' = IF success /\ cmd # <<>>
                       THEN [NoRequest EXCEPT !.pc = "offer", !.path = "_handle_conversation",
                                              !.command = cmd]
                       ELSE [NoRequest EXCEPT !.path = "_handle_conversation"]
  /\ UNCHANGED disk /\ RequestFrame

\* run_interactive, lines 545-576: a conversational input, or a command
\* request whose generation failed
Chat ==
  /\ Len(conversation_history) < MaxHistory
  /\ HandleConversation(AssistantCommands \cup {<<>>})

\* run_interactive, lines 534-537: the input is 'clear'
ClearHistory ==
  /\ assistant.pc = "idle"
  /\ conversation_history' = <<>>
  /\ UNCHANGED <<assistant, disk>> /\ RequestFrame

\* run_interactive, lines 549-563: a command request; the command generated
\* is displayed
InteractiveGenerate ==
  /\ assistant.pc = "idle"
  /\ \E cmd \in AssistantCommands :
       assistant' = [NoRequest EXCEPT !.pc = "ask", !.path = "run_interactive",
                                      !.displayed = Some(cmd)]
  /\ UNCHANGED disk /\ AssistantFrame

\* lines 565-570: the offer to execute the command displayed; on yes
\* process_request(user_input) is called
InteractiveOffer ==
  /\ assistant.pc = "ask"
  /\ \E answer \in BOOLEAN :
       assistant' = [assistant EXCEPT
                       !.answers = @ \cup {[prompt |-> "Would you like to execute this command?",
                                            answer |-> answer]},
                       !.pc = IF answer THEN "process_request" ELSE "idle"]
  /\ UNCHANGED disk /\ AssistantFrame

\* process_request as run_interactive calls it, lines 190-199: it generates
\* the command for user_input itself
InteractiveProcess ==
  /\ assistant.pc = "process_request"
  /\ \E success \in BOOLEAN, cmd \in AssistantCommands \cup {<<>>} :
       assistant' = IF success /\ cmd # <<>>
                    THEN [assistant EXCEPT !.pc = "validate", !.command = cmd]
                    ELSE [assistant EXCEPT !.pc = "idle"]
  /\ UNCHANGED disk /\ AssistantFrame

\* line 605
ConversationOffer ==
  /\ assistant.pc = "offer"
  /\ \E answer \in BOOLEAN :
       assistant' = [assistant EXCEPT
                       !.answers = @ \cup {[prompt |-> "Would you like me to execute this command?",
                                            answer |-> answer]},
                       !.pc = IF answer THEN "chat_validate" ELSE "idle"]
  /\ UNCHANGED disk /\ AssistantFrame

\* lines 607-611
ConversationValidate ==
  ValidateThen("chat_validate", "chat_confirm") /\ UNCHANGED disk /\ AssistantFrame

\* lines 614-618
ConversationConfirm ==
  ConfirmThen("chat_confirm", "Proceed with execution?", "chat_execute")
    /\ UNCHANGED disk /\ AssistantFrame

\* lines 621-622
ConversationExecute == ExecuteAt("chat_execute") /\ UNCHANGED disk /\ AssistantFrame

NextAssistant ==
  \/ Generate \/ ProcessValidate \/ ProcessBackup \/ ProcessConfirm \/ ProcessExecute
  \/ Chat \/ ConversationOffer \/ ConversationValidate \/ ConversationConfirm
  \/ ConversationExecute
  \/ ClearHistory \/ InteractiveGenerate \/ InteractiveOffer \/ InteractiveProcess

InitAssistant ==
  /\ validator \in {NewValidator(config) : config \in AssistantConfigs}
  /\ pc = "idle"
  /\ command = <<>>
  /\ verdict = NoVerdict
  /\ remembered = None
  /\ frames = [t \in Threads |-> IdleFrame]
  /\ assistant = NoRequest
  /\ disk = AssistantDisk
  /\ backup_call = NoCall
  /\ config_dir = FreshConfigDir
  /\ merge = NoMerge
  /\ AtRest

SpecAssistant == InitAssistant /\ [][NextAssistant]_vars

(***************************************************************************)
(* BackupManager: its methods called one after the other, while the clock  *)
(* moves on                                                                *)
(***************************************************************************)

\* the contents a file may have, block by block
Contents == {<<"a", "b">>, <<"c">>}

\* the files that exist when the BackupManager is made
BackupFiles == {<<"/","h","o","m","e","/","u","s","e","r","/",".","b","a","s","h","_","p","r","o","f","i","l","e">>}

\* the file_path arguments of create_backup
BackupRequests == {<<"~","/",".","b","a","s","h","_","p","r","o","f","i","l","e">>, <<"/","e","t","c","/","f","s","t","a","b">>}

\* the target_path arguments of restore_backup
RestoreTargets == {None, Some(<<"~","/",".","b","a","s","h","_","p","r","o","f","i","l","e">>)}

BackupFrame ==
  UNCHANGED <<validator, pc, command, verdict, remembered, frames, assistant,
              config_dir, merge, conversation_history, DEFAULT_CONFIG, last_config>>

\* created = self.backup_manager.create_backup(file_path)
CreateBackup ==
  /\ \E file_path \in BackupRequests :
       \E outcome \in BackupOutcomes(file_path) :
         \E made \in {create_backup(disk, file_path, outcome)},
            name \in {BackupFilename(Resolve(file_path), Timestamps[disk.clock])} :
           /\ disk' = made.disk
           /\ backup_call' = [op       |-> "create_backup",
                              argument |-> Some(file_path),
                              target   |-> None,
                              result   |-> made.result,
                              name     |-> Some(name),
                              before   |-> IF name \in DOMAIN disk.backups
                                           THEN Some(disk.backups[name]) ELSE None]
  /\ BackupFrame

\* self.backup_manager.list_backups()
ListBackups ==
  /\ backup_call' = [op |-> "list_backups", argument |-> None, target |-> None,
                     result |-> Some(list_backups(disk, None)),
                     name |-> None, before |-> None]
  /\ UNCHANGED disk
  /\ BackupFrame

\* self.backup_manager.restore_backup(backup_path, target_path) of a file of
\* the backup directory
RestoreBackup ==
  /\ \E name \in DOMAIN disk.backups, target_path \in RestoreTargets :
       \E target \in {RestoreTarget(BackupPath(name), target_path)} :
         \E snapshot \in BackupOutcomes(target) :
           \E saved \in {IF target \in DOMAIN disk.files
                          THEN create_backup(disk, target, snapshot).disk ELSE disk} :
             \E outcome \in CopyOutcomes(saved.backups[name]) :
               \E restored \in {restore_backup(disk, BackupPath(name), target_path,
                                                snapshot, outcome)} :
                 /\ disk' = restored.disk
                 /\ backup_call' = [op       |-> "restore_backup",
                                    argument |-> Some(BackupPath(name)),
                                    target   |-> target_path,
                                    result   |-> Some(restored.result),
                                    name     |-> Some(name),
                                    before   |-> Some(disk.backups[name])]
  /\ BackupFrame

\* a command the assistant ran rewrites a file
EditFile ==
  /\ \E file \in DOMAIN disk.files, content \in Contents :
       disk' = [disk EXCEPT !.files[file] = content]
  /\ UNCHANGED backup_call
  /\ BackupFrame

\* a second passes
Tick ==
  /\ disk.clock < Len(Timestamps)
  /\ disk' = [disk EXCEPT !.clock = @ + 1]
  /\ UNCHANGED backup_call
  /\ BackupFrame

NextBackup == CreateBackup \/ ListBackups \/ RestoreBackup \/ EditFile \/ Tick

InitBackup ==
  /\ validator = NewValidator(DefaultSecurityConfig)
  /\ pc = "idle"
  /\ command = <<>>
  /\ verdict = NoVerdict
  /\ remembered = None
  /\ frames = [t \in Threads |-> IdleFrame]
  /\ assistant = NoRequest
  /\ disk \in {[files |-> files, backups |-> <<>>, clock |-> 1] :
                 files \in [BackupFiles -> Contents]}
  /\ backup_call = NoCall
  /\ config_dir = FreshConfigDir
  /\ merge = NoMerge
  /\ AtRest

SpecBackup == InitBackup /\ [][NextBackup]_vars

(***************************************************************************)
(* ConfigManager._deep_merge on two dicts nested three deep                *)
(***************************************************************************)

\* the dicts with some of the keys, each key with one of its cells
DictsOf(cells) ==
  UNION {{d \in [keys -> UNION {cells[k] : k \in keys}] : \A k \in keys : d[k] \in cells[k]} :
           keys \in SUBSET DOMAIN cells}

\* a dict whose plain values are v, with the dict child under "a", the dict
\* grandchild under "b" of the child
RootDicts(v, child) == DictsOf([a |-> {Leaf(v), Ref(child)}, d |-> {Leaf(v)}])
ChildDicts(v, grandchild) == DictsOf([b |-> {Leaf(v), Ref(grandchild)}, c |-> {Leaf(v)}])
GrandchildDicts(v) == DictsOf([b |-> {Leaf(v)}, e |-> {Leaf(v)}])

\* the heaps a call may find: objects 1, 2, 3 are base, its child and its
\* grandchild, objects 4, 5, 6 are override, its child and its grandchild
MergeHeaps ==
  {<<b1, b2, b3, o1, o2, o3>> :
     b1 \in RootDicts("old", 2), b2 \in ChildDicts("old", 3), b3 \in GrandchildDicts("old"),
     o1 \in RootDicts("new", 5), o2 \in ChildDicts("new", 6), o3 \in GrandchildDicts("new")}

MergeFrame ==
  UNCHANGED <<validator, pc, command, verdict, remembered, frames, assistant, disk,
              backup_call, config_dir, conversation_history, DEFAULT_CONFIG, last_config>>

\* self._deep_merge(base, override)
DeepMerge ==
  /\ merge.pc = "ready"
  /\ merge' = [merge EXCEPT !.pc = "merged",
                            !.before = merge.heap,
                            !.heap = _deep_merge(merge.heap, merge.base, merge.override)]
  /\ MergeFrame

NextMerge == DeepMerge

InitMerge ==
  /\ validator = NewValidator(DefaultSecurityConfig)
  /\ pc = "idle"
  /\ command = <<>>
  /\ verdict = NoVerdict
  /\ remembered = None
  /\ frames = [t \in Threads |-> IdleFrame]
  /\ assistant = NoRequest
  /\ disk = EmptyDisk
  /\ backup_call = NoCall
  /\ config_dir = FreshConfigDir
  /\ merge \in {[pc |-> "ready", heap |-> heap, base |-> 1, override |-> 4, before |-> <<>>] :
                  heap \in MergeHeaps}
  /\ AtRest

SpecMerge == InitMerge /\ [][NextMerge]_vars

(***************************************************************************)
(* ConfigManager on its config directory                                   *)
(***************************************************************************)

\* the most calls followed in one run
MaxOps == 4

\* the keys a user may store
ApiKeys == {<<"s","k","-","t","e","s","t">>, <<" ","s","k","-","t","e","s","t"," ">>, <<>>}

ConfigFrame ==
  UNCHANGED <<validator, pc, command, verdict, remembered, frames, assistant, disk,
              backup_call, merge, conversation_history, DEFAULT_CONFIG, last_config>>

\* the call is noted; what the last is_configured() answered is forgotten
Noted(dir, op) == [dir EXCEPT !.ops = Append(@, op), !.answer = None]

\* cm._store_api_key(api_key)
StoreApiKey ==
  /\ Len(config_dir.ops) < MaxOps
  /\ \E api_key \in ApiKeys :
       config_dir' = Noted(_store_api_key(config_dir, api_key), "_store_api_key")
  /\ ConfigFrame

\* cm._save_config(config), at the end of setup_config
SaveConfig ==
  /\ Len(config_dir.ops) < MaxOps
  /\ \E config \in AssistantConfigs :
       config_dir' = Noted(_save_config(config_dir, config), "_save_config")
  /\ ConfigFrame

\* cm.reset_config()
ResetConfig ==
  /\ Len(config_dir.ops) < MaxOps
  /\ config_dir' = Noted(reset_config(config_dir), "reset_config")
  /\ ConfigFrame

\* cm.is_configured()
IsConfigured ==
  /\ config_dir' = [config_dir EXCEPT !.answer = Some(is_configured(config_dir))]
  /\ ConfigFrame

NextConfig == StoreApiKey \/ SaveConfig \/ ResetConfig \/ IsConfigured

InitConfig ==
  /\ validator = NewValidator(DefaultSecurityConfig)
  /\ pc = "idle"
  /\ command = <<>>
  /\ verdict = NoVerdict
  /\ remembered = None
  /\ frames = [t \in Threads |-> IdleFrame]
  /\ assistant = NoRequest
  /\ disk = EmptyDisk
  /\ backup_call = NoCall
  /\ config_dir = FreshConfigDir
  /\ merge = NoMerge
  /\ AtRest

SpecConfig == InitConfig /\ [][NextConfig]_vars


(***************************************************************************)
(* The interactive mode as a conversation: inputs the assistant answers    *)
(* with no command, and 'clear'                                            *)
(***************************************************************************)

\* run_interactive, lines 574-576: a conversational input
Converse == assistant.pc = "idle" /\ HandleConversation({<<>>})

NextChat == Converse \/ ClearHistory

SpecChat == InitConfig /\ [][NextChat]_vars

(***************************************************************************)
(* ConfigManager: get_config, setup_config and reset_config in one process,*)
(* while an administrator installs and removes the system config file      *)
(***************************************************************************)

\* the contents of /etc/ai-terminal-assistant/config.yaml
SystemConfigs ==
  {[items |-> [api      |-> Dict([model |-> "gpt-4o"]),
               security |-> Dict([max_command_length |-> 500])]]}

\* what the user types at the prompts of setup_config
Choices == {<<>>, <<"2">>}
ConfirmAnswers == {<<>>, <<"n">>}
OtherAnswers == {<<>>}

DefaultsFrame ==
  UNCHANGED <<validator, pc, command, verdict, remembered, frames, assistant, disk,
              backup_call, merge, conversation_history>>

\* the dicts of the class: DEFAULT_CONFIG is object 1
ClassHeap == Load(<<>>, DEFAULT_CONFIG).heap

\* the config files that exist
FilesPresent(dir) == {f \in {"system_config", "user_config"} : ~IsNone(dir[f])}

\* config = cm.get_config()
GetConfig ==
  /\ \E got \in {get_config(ClassHeap, config_dir)} :
       /\ DEFAULT_CONFIG' = Deref(got.heap, Ref(1))
       /\ last_config' = Some([config |-> Deref(got.heap, Ref(got.config)),
                               files  |-> FilesPresent(config_dir)])
  /\ UNCHANGED config_dir /\ DefaultsFrame

\* cm.setup_config(): the key is kept or entered, the prompts are answered
SetupConfig ==
  /\ \E api_key \in {Some(key) : key \in {<<"s","k","-","t","e","s","t">>}}
                      \cup (IF is_configured(config_dir) THEN {None} ELSE {}),
        choice \in Choices, confirm \in ConfirmAnswers,
        dangerous \in OtherAnswers, logging \in OtherAnswers :
       \E done \in {setup_config(ClassHeap, config_dir, api_key, choice, confirm,
                                 dangerous, logging)} :
         /\ DEFAULT_CONFIG' = Deref(done.heap, Ref(1))
         /\ config_dir' = done.dir
  /\ UNCHANGED last_config /\ DefaultsFrame

\* the administrator installs or removes the system config file
SystemConfigFile ==
  /\ \E file \in {None} \cup {Some(file_config) : file_config \in SystemConfigs} :
       config_dir' = [config_dir EXCEPT !.system_config = file]
  /\ UNCHANGED <<DEFAULT_CONFIG, last_config>> /\ DefaultsFrame

NextDefaults == GetConfig \/ SetupConfig \/ ResetConfig \/ SystemConfigFile

SpecDefaults == InitConfig /\ [][NextDefaults]_vars

(***************************************************************************)
(* What the claims speak of, for the call that returned                    *)
(***************************************************************************)

Returned == pc = "returned"

\* the command as validate_command sees it after line 192
Stripped == Strip(command)

\* the configuration values in force (a key left out has the default of .get)
MaxCommandLength ==
  ConfigGet(validator.config, "max_command_length", DefaultMaxCommandLength)
BlockDangerous == ConfigGet(validator.config, "block_dangerous_commands", TRUE)
RequireConfirmation == ConfigGet(validator.config, "require_confirmation", TRUE)

IsEmpty == Stripped = <<>>
TooLong == Len(Stripped) > MaxCommandLength
Tokenizes == ShlexSplit(Stripped).ok

\* the command passes the checks of lines 194-208
WellFormed == ~IsEmpty /\ ~TooLong /\ Tokenizes

\* the lower-cased first token
BaseCommand == ToStr(Lower(ShlexSplit(Stripped).parts[1]))
HasBaseCommand == ~IsEmpty /\ Tokenizes /\ ShlexSplit(Stripped).parts # <<>>

MatchesCritical ==
  \E i \in DOMAIN InitCriticalPatterns : re_search(InitCriticalPatterns[i], Stripped)
MatchesWarning ==
  \E i \in DOMAIN InitWarningPatterns : re_search(InitWarningPatterns[i], Stripped)

DangerousBase == HasBaseCommand /\ BaseCommand \in InitDangerousCommands
ConfirmationBase == HasBaseCommand /\ BaseCommand \in InitConfirmationCommands

(***************************************************************************)
(* Claims                                                                  *)
(***************************************************************************)

\* C1 (as stated): every command that matches a critical pattern gets
\* valid = false and risk_level = CRITICAL, whatever the configuration.
C1_CriticalAlwaysCritical ==
  Returned /\ MatchesCritical => verdict.valid = FALSE /\ RiskOf(verdict) = "CRITICAL"

\* C1 (amended): every command that matches a critical pattern gets
\* valid = false whatever the configuration, and risk_level = CRITICAL when it
\* passes the empty, length and tokenization checks that come first.
C1_CriticalBlocked ==
  Returned /\ MatchesCritical =>
    /\ verdict.valid = FALSE
    /\ WellFormed => RiskOf(verdict) = "CRITICAL"

C1_Witness ==
  /\ Returned /\ MatchesCritical /\ WellFormed
  /\ ~BlockDangerous /\ ~RequireConfirmation
  /\ RiskOf(verdict) = "CRITICAL"

DestructiveExamples ==
  {<<"r","m"," ","-","r","f"," ","/">>, <<"d","d"," ","i","f","=","/","d","e","v","/","z","e","r","o"," ","o","f","=","/","d","e","v","/","s","d","a">>, <<"m","k","f","s",".","e","x","t","4"," ","/","d","e","v","/","s","d","a","1">>,
   <<"c","u","r","l"," ","m","a","l","i","c","i","o","u","s",".","c","o","m"," ","|"," ","s","h">>}

\* C3: with block_dangerous_commands on, each destructive command of the
\* test (rm -rf /, dd onto a disk, mkfs.ext4 on a device, curl piped into sh)
\* gets valid = false.
C3_DestructiveBlocked ==
  Returned /\ BlockDangerous /\ command \in DestructiveExamples => verdict.valid = FALSE

\* the commands of test_safe_commands
SafeExamples ==
  {<<"l","s"," ","-","l","a">>, <<"p","s"," ","a","u","x">>, <<"d","f"," ","-","h">>, <<"g","r","e","p"," ","-","r"," ","'","e","r","r","o","r","'"," ",".">>, <<"f","i","n","d"," ","."," ","-","n","a","m","e"," ","'","*",".","p","y","'">>}

\* the classifier's record for the command that returned
ConfigEditing ==
  _is_config_editing_command(validator, Stripped, ShlexSplit(Stripped).parts)

FileModifyingExamples ==
  {<<"c","p"," ","f","i","l","e","1"," ","f","i","l","e","2">>, <<"m","v"," ","o","l","d","n","a","m","e"," ","n","e","w","n","a","m","e">>, <<"c","h","m","o","d"," ","7","5","5"," ","s","c","r","i","p","t",".","s","h">>, <<"m","k","d","i","r"," ","n","e","w","d","i","r">>}

\* a confirmation trigger fired, by the verdict's own classification
Triggered ==
  \/ ConfirmationBase
  \/ MatchesWarning
  \/ verdict.config_editing.is_config
  \/ verdict.config_editing.is_critical

\* C5: on a valid verdict needs_confirmation is (a trigger fired) and
\* require_confirmation; cp, mv, chmod and mkdir are valid and need
\* confirmation when require_confirmation is on; a verdict with valid = false
\* never has needs_confirmation true.
C5_NeedsConfirmation ==
  Returned =>
    /\ verdict.valid => verdict.needs_confirmation = (Triggered /\ RequireConfirmation)
    /\ ~verdict.valid => Get(verdict, "needs_confirmation", FALSE) = FALSE
    /\ command \in FileModifyingExamples /\ RequireConfirmation /\ ~TooLong
       => verdict.valid /\ verdict.needs_confirmation

C5_Witness ==
  /\ Returned /\ command \in FileModifyingExamples /\ RequireConfirmation
  /\ ~MatchesWarning /\ ~verdict.config_editing.is_config
  /\ verdict.valid /\ verdict.needs_confirmation

\* the validator with require_confirmation set to b and nothing else changed
WithRequireConfirmation(self, b) ==
  LET config == self.config
  IN  [self EXCEPT !.config =
         [k \in DOMAIN config \cup {"require_confirmation"} |->
            IF k = "require_confirmation" THEN b ELSE config[k]]]

\* C6: the same command validated with require_confirmation on and off gets
\* the same valid and the same risk_level, and with require_confirmation off
\* needs_confirmation is never true.
C6_ConfirmationGating ==
  Returned =>
    LET other == validate_command(
                   WithRequireConfirmation(validator, ~RequireConfirmation), command)
    IN  /\ other.valid = verdict.valid
        /\ RiskOf(other) = RiskOf(verdict)
        /\ ~RequireConfirmation => Get(verdict, "needs_confirmation", FALSE) = FALSE

C6_Witness ==
  /\ Returned /\ ~RequireConfirmation /\ verdict.valid /\ Triggered
  /\ verdict.risk_level = "HIGH" /\ verdict.needs_confirmation = FALSE

\* C7: a command of exactly max_command_length characters after trimming is
\* not rejected for its length; one character longer is rejected with reason
\* "Command too long".
C7_LengthBoundary ==
  Returned =>
    /\ Len(Stripped) = MaxCommandLength => verdict.reason # "Command too long"
    /\ Len(Stripped) = MaxCommandLength + 1
       => verdict.valid = FALSE /\ verdict.reason = "Command too long"

C7_Witness ==
  Returned /\ Len(Stripped) = MaxCommandLength /\ Len(command) > Len(Stripped)
    /\ verdict.valid

\* C8: a call changes neither the validator's config nor any of its tables,
\* and a call returns the verdict an earlier call of the same command
\* returned, whatever was called in between.
C8_NoHiddenState ==
  [][/\ validator' = validator
     /\ pc' = "returned" /\ ~IsNone(remembered) /\ Value(remembered).command = command'
        => verdict' = Value(remembered).verdict]_vars

C8_Witness ==
  /\ Returned /\ ~IsNone(remembered)
  /\ Value(remembered).command = command
  /\ Value(remembered).verdict = verdict
  /\ verdict.valid /\ verdict.needs_confirmation
  /\ validator = NewValidator(validator.config)

\* C9: under every interleaving of the threads' steps, an invocation returns
\* the verdict validate_command gives for its command when run alone.
C9_NoInterference ==
  \A t \in Threads :
    frames[t].pc = "done" => frames[t].result = validate_command(validator, frames[t].raw)

C9_Witness ==
  \E t, u \in Threads :
    /\ t # u
    /\ frames[t].pc = "done" /\ frames[t].result.valid
    /\ frames[u].pc \notin {"idle", "done"}
    /\ frames[u].raw # frames[t].raw

\* C10: CRITICAL only on a verdict blocked by a critical pattern; the
\* dangerous-command block gives HIGH, valid = false and a reason naming the
\* command; a valid verdict is HIGH iff the target is a critical file, else
\* MEDIUM iff a warning pattern matched or the target is a config file, else LOW.
C10_RiskClassification ==
  Returned =>
    /\ RiskOf(verdict) = "CRITICAL" => verdict.valid = FALSE /\ WellFormed /\ MatchesCritical
    /\ WellFormed /\ ~MatchesCritical /\ DangerousBase /\ BlockDangerous
       => /\ verdict.valid = FALSE
          /\ RiskOf(verdict) = "HIGH"
          /\ verdict.reason = "Dangerous command blocked: " \o BaseCommand
    /\ verdict.valid
       => verdict.risk_level =
            IF verdict.config_editing.is_critical THEN "HIGH"
            ELSE IF MatchesWarning \/ verdict.config_editing.is_config THEN "MEDIUM"
            ELSE "LOW"

C10_Witness ==
  /\ Returned /\ verdict.valid /\ verdict.risk_level = "HIGH"
  /\ MatchesWarning /\ verdict.config_editing.is_config

RiskLevels == {"LOW", "MEDIUM", "HIGH", "CRITICAL"}

\* C11 (as stated): every verdict, the rejections of an empty, over-long or
\* unparseable command included, carries a reason string and a risk_level
\* that is one of LOW, MEDIUM, HIGH, CRITICAL.
C11_ReasonAndRiskAlways ==
  Returned =>
    /\ "reason" \in DOMAIN verdict /\ Len(verdict.reason) > 0
    /\ RiskOf(verdict) \in RiskLevels

\* C11 (amended): every verdict carries a non-empty reason string; every
\* verdict of a command that passes the empty, length and tokenization checks
\* carries a risk_level that is one of LOW, MEDIUM, HIGH, CRITICAL; the
\* rejection of an empty, over-long or unparseable command carries valid and
\* reason and nothing else.
C11_ReasonAndRisk ==
  Returned =>
    /\ "reason" \in DOMAIN verdict /\ Len(verdict.reason) > 0
    /\ WellFormed => RiskOf(verdict) \in RiskLevels
    /\ ~WellFormed => DOMAIN verdict = {"valid", "reason"}

C11_Witness ==
  /\ Returned /\ ~IsEmpty /\ TooLong
  /\ verdict.reason = "Command too long"
  /\ "risk_level" \notin DOMAIN verdict

ParserErrors == {"No closing quotation", "No escaped character"}

\* C12: for every command and every config record validate_command returns
\* a verdict and raises nothing; a command that fails tokenization gets
\* valid = false and the reason "Invalid syntax: " followed by the parser's
\* error.
C12_NeverRaises ==
  /\ pc # "raised"
  /\ Returned => verdict.valid \in BOOLEAN /\ "reason" \in DOMAIN verdict
  /\ Returned /\ ~IsEmpty /\ ~TooLong /\ ~Tokenizes =>
       /\ verdict.valid = FALSE
       /\ ShlexSplit(Stripped).error \in ParserErrors
       /\ verdict.reason = "Invalid syntax: " \o ShlexSplit(Stripped).error

C12_Witness ==
  /\ Returned /\ ~IsEmpty /\ ~TooLong /\ ~Tokenizes
  /\ verdict.reason = "Invalid syntax: No escaped character"

\* C13: on a valid verdict backup_recommended is true exactly when the
\* classifier's record for the command has is_config or is_critical.
C13_BackupRecommended ==
  Returned /\ verdict.valid =>
    verdict.backup_recommended = (ConfigEditing.is_config \/ ConfigEditing.is_critical)

C13_Witness ==
  /\ Returned /\ verdict.valid /\ verdict.backup_recommended
  /\ ConfigEditing.is_config /\ ~ConfigEditing.is_critical

\* C14: in the record the classifier returns, is_critical implies is_config,
\* requires_sudo implies is_config, and any of the three flags implies a
\* file_path that is not None.
C14_TargetFlags ==
  Returned /\ verdict.valid =>
    /\ verdict.config_editing = ConfigEditing
    /\ ConfigEditing.is_critical => ConfigEditing.is_config
    /\ ConfigEditing.requires_sudo => ConfigEditing.is_config
    /\ ConfigEditing.is_config \/ ConfigEditing.is_critical \/ ConfigEditing.requires_sudo
         => ~IsNone(ConfigEditing.file_path)

C14_Witness ==
  /\ Returned /\ verdict.valid
  /\ verdict.config_editing.is_critical /\ verdict.config_editing.requires_sudo
  /\ verdict.config_editing.is_config /\ ~IsNone(verdict.config_editing.file_path)

\* the command the assistant executed for the request, and the prompts that
\* ask for confirmation of a verdict
Executed == ~IsNone(assistant.executed)
ConfirmationPrompts == {"Do you want to proceed?", "Proceed with execution?"}

\* C15: a command is passed to _execute_command only after validate_command
\* returned valid = true for that same string and, when the verdict needs
\* confirmation, after the user answered yes to the confirmation prompt, on
\* the process_request path and on the conversation path; after a blocking
\* verdict or a "no" nothing is executed.
C15_ExecutionGating ==
  /\ Executed =>
       \E call \in assistant.validated :
         /\ call.command = Value(assistant.executed)
         /\ call.verdict = validate_command(validator, call.command)
         /\ call.verdict.valid
         /\ Get(call.verdict, "needs_confirmation", FALSE) =>
              \E a \in assistant.answers : a.prompt \in ConfirmationPrompts /\ a.answer
  /\ (\E call \in assistant.validated : ~call.verdict.valid) => ~Executed
  /\ (\E a \in assistant.answers : ~a.answer) => ~Executed

C15_Witness ==
  /\ Executed /\ assistant.path = "_handle_conversation"
  /\ Value(assistant.validation).needs_confirmation
  /\ [prompt |-> "Proceed with execution?", answer |-> TRUE] \in assistant.answers

\* C16: when the assistant executes a command whose verdict has
\* backup_recommended and a file_path, create_backup was called for that
\* file_path before, on the process_request path and on the conversation path.
C16_BackupBeforeExecution ==
  Executed =>
    \A target \in {BackupTarget(validate_command(validator, Value(assistant.executed)))} :
      ~IsNone(target) => Value(target) \in assistant.backed_up

\* a create_backup call of a file that exists has returned
BackupCalled ==
  /\ backup_call.op = "create_backup"
  /\ Resolve(Value(backup_call.argument)) \in DOMAIN disk.files

\* C17: create_backup either produces a complete copy of the file and
\* returns its path, or returns None and leaves no file at the backup path: a
\* copy that fails part-way leaves nothing in the backup directory that was
\* not there before the call, so nothing partial for list_backups to report.
C17_BackupAtomicity ==
  BackupCalled =>
    \A name \in {Value(backup_call.name)} :
      IF ~IsNone(backup_call.result)
      THEN /\ Value(backup_call.result) = BackupPath(name)
           /\ disk.backups[name] = disk.files[Resolve(Value(backup_call.argument))]
      ELSE /\ name \in DOMAIN disk.backups =>
                ~IsNone(backup_call.before) /\ disk.backups[name] = Value(backup_call.before)
           /\ \A i \in DOMAIN list_backups(disk, None) :
                list_backups(disk, None)[i].backup_path = BackupPath(name) =>
                  ~IsNone(backup_call.before)

RECURSIVE IsMergeOf(_, _, _)
\* result is the recursive merge of the dicts base and override
IsMergeOf(result, base, override) ==
  /\ IsDictValue(result)
  /\ DOMAIN result.items = DOMAIN base.items \cup DOMAIN override.items
  /\ \A k \in DOMAIN override.items :
       IF k \in DOMAIN base.items /\ IsDictValue(base.items[k]) /\ IsDictValue(override.items[k])
       THEN IsMergeOf(result.items[k], base.items[k], override.items[k])
       ELSE result.items[k] = override.items[k]
  /\ \A k \in DOMAIN base.items \ DOMAIN override.items : result.items[k] = base.items[k]

\* C18: _deep_merge(base, override) updates base in place: for every key k
\* of override, base[k] becomes the recursive merge of base[k] and override[k]
\* when both are dicts and override[k] otherwise, and every key of base that
\* override does not have keeps its value, at every depth.
C18_DeepMerge ==
  merge.pc = "merged" =>
    IsMergeOf(Deref(merge.heap, Ref(merge.base)),
              Deref(merge.before, Ref(merge.base)),
              Deref(merge.before, Ref(merge.override)))

C18_Witness ==
  /\ merge.pc = "merged"
  /\ DOMAIN merge.before[1] = {"a", "d"} /\ DOMAIN merge.before[4] = {"a"}
  /\ merge.before[1]["a"] = Ref(2) /\ merge.before[4]["a"] = Ref(5)
  /\ DOMAIN merge.before[2] = {"b", "c"} /\ DOMAIN merge.before[5] = {"b"}
  /\ merge.before[2]["b"] = Ref(3) /\ merge.before[5]["b"] = Ref(6)
  /\ DOMAIN merge.before[3] = {"b", "e"} /\ DOMAIN merge.before[6] = {"b"}
  /\ merge.heap[3] = [b |-> Leaf("new"), e |-> Leaf("old")]
  /\ merge.heap[2] = [b |-> Ref(3), c |-> Leaf("old")]
  /\ merge.heap[1] = [a |-> Ref(2), d |-> Leaf("old")]

\* whether an API key is stored after the calls made: the last of the
\* _store_api_key and reset_config calls is a _store_api_key
RECURSIVE KeyStored(_)
KeyStored(ops) ==
  IF ops = <<>> THEN FALSE
  ELSE IF ops[Len(ops)] = "_store_api_key" THEN TRUE
  ELSE IF ops[Len(ops)] = "reset_config" THEN FALSE
  ELSE KeyStored(SubSeq(ops, 1, Len(ops) - 1))

\* C19: after any sequence of _store_api_key and reset_config calls on a
\* config directory, is_configured() is true exactly when an API key is
\* stored: false on a fresh directory, true after _store_api_key, false
\* again after reset_config.
C19_IsConfigured ==
  ~IsNone(config_dir.answer) => Value(config_dir.answer) = KeyStored(config_dir.ops)

C19_Witness ==
  /\ config_dir.answer = Some(FALSE)
  /\ Len(config_dir.ops) >= 2
  /\ config_dir.ops[Len(config_dir.ops)] = "reset_config"
  /\ config_dir.ops[Len(config_dir.ops) - 1] = "_store_api_key"

\* C20: the rejecting checks come in the order empty, too long, tokenization
\* failure, critical pattern, dangerous command, and the verdict is that of
\* the first check that rejects; dd if=/dev/zero of=/dev/sda, which matches
\* a critical pattern and has a dangerous base command, is reported CRITICAL,
\* not HIGH.
C20_FirstRejectionWins ==
  Returned =>
    /\ IF IsEmpty
         THEN verdict = [valid |-> FALSE, reason |-> "Empty command"]
       ELSE IF TooLong
         THEN verdict = [valid |-> FALSE, reason |-> "Command too long"]
       ELSE IF ~Tokenizes
         THEN verdict = [valid |-> FALSE,
                         reason |-> "Invalid syntax: " \o ShlexSplit(Stripped).error]
       ELSE IF MatchesCritical
         THEN verdict = [valid |-> FALSE,
                         reason |-> "Critical security pattern detected - command blocked",
                         risk_level |-> "CRITICAL"]
       ELSE IF DangerousBase /\ BlockDangerous
         THEN verdict = [valid |-> FALSE,
                         reason |-> "Dangerous command blocked: " \o BaseCommand,
                         risk_level |-> "HIGH"]
       ELSE verdict.valid
    /\ command = <<"d","d"," ","i","f","=","/","d","e","v","/","z","e","r","o"," ","o","f","=","/","d","e","v","/","s","d","a">> /\ WellFormed =>
         RiskOf(verdict) = "CRITICAL"

C20_Witness ==
  /\ Returned /\ command = <<"d","d"," ","i","f","=","/","d","e","v","/","z","e","r","o"," ","o","f","=","/","d","e","v","/","s","d","a">>
  /\ WellFormed /\ MatchesCritical /\ DangerousBase /\ BlockDangerous
  /\ RiskOf(verdict) = "CRITICAL"


(***************************************************************************)
(* The classifier's targets                                                *)
(***************************************************************************)

\* the tokens of the command that returned
CommandParts == ShlexSplit(Stripped).parts

\* the text after the first run of '>' and the blanks behind it, up to the
\* next blank or control character
TargetAfterRedirection(text) ==
  LET n == Len(text)
      first == SetMin({i \in 1..n : text[i] = ">"})
      after == SetMin({i \in first..(n + 1) : i = n + 1 \/ text[i] # ">"})
      start == SetMin({i \in after..(n + 1) : i = n + 1 \/ text[i] \notin Whitespace})
      stop  == SetMin({i \in start..(n + 1) :
                         i = n + 1 \/ text[i] \in Whitespace \cup {"&", "|", ";"}})
  IN  SubSeq(text, start, stop - 1)

\* C21: for a command that is no editor invocation and contains an output
\* redirection, config_editing.file_path is the target behind the first
\* redirection operator, be it '>' or '>>', up to the next blank or control
\* character; echo hi >> /etc/hosts gets file_path /etc/hosts and is_config.
C21_RedirectTarget ==
  Returned /\ verdict.valid /\ ~IsEditorCommand(CommandParts) /\ Contains(Stripped, ">")
           /\ TargetAfterRedirection(Stripped) # <<>> =>
    /\ verdict.config_editing.file_path = Some(TargetAfterRedirection(Stripped))
    /\ command = <<"e","c","h","o"," ","h","i"," ",">",">"," ","/","e","t","c","/","h","o","s","t","s">> =>
         /\ verdict.config_editing.file_path = Some(<<"/","e","t","c","/","h","o","s","t","s">>)
         /\ verdict.config_editing.is_config

\* a token that is no option flag and looks like a file
NamesFile(part) ==
  /\ ~StartsWith(part, <<"-">>)
  /\ \/ Contains(part, "/")
     \/ StartsWith(part, <<"~">>)
     \/ \E ext \in ConfigExtensions : EndsWith(part, ext)

\* C22: in the editor branch file_path is the first token after the first
\* that does not start with '-' and that contains '/', starts with '~' or
\* ends in a config extension; a token starting with '-' is never file_path.
C22_EditorTarget ==
  Returned /\ verdict.valid /\ IsEditorCommand(CommandParts) =>
    LET named == {i \in 2..Len(CommandParts) : NamesFile(CommandParts[i])}
        file_path == verdict.config_editing.file_path
    IN  /\ file_path = IF named = {} THEN None ELSE Some(CommandParts[SetMin(named)])
        /\ ~IsNone(file_path) => ~StartsWith(Value(file_path), <<"-">>)

\* the record the classifier starts from
DefaultRecord ==
  [is_config |-> FALSE, is_critical |-> FALSE, file_path |-> None,
   editor |-> None, requires_sudo |-> FALSE]

\* C23 as stated: with no file_path found the classifier returns the
\* all-default record, for an editor invocation as for any other command.
C23_NoTargetAllDefault ==
  Returned /\ verdict.valid /\ IsNone(verdict.config_editing.file_path) =>
    verdict.config_editing = DefaultRecord

\* C23: with no file_path found the classifier returns is_config,
\* is_critical and requires_sudo false and file_path None; editor is None
\* for a command that is no editor invocation, and the lower-cased first
\* token for an editor invocation.
C23_NoTargetDefaults ==
  Returned /\ verdict.valid /\ IsNone(verdict.config_editing.file_path) =>
    verdict.config_editing =
      [DefaultRecord EXCEPT !.editor =
         IF IsEditorCommand(CommandParts)
           THEN Some(ToStr(Lower(CommandParts[1]))) ELSE None]

C23_Witness ==
  /\ Returned /\ verdict.valid /\ command = <<"c","o","d","e"," ","n","o","t","e","s",".","t","x","t">>
  /\ IsNone(verdict.config_editing.file_path)
  /\ verdict.config_editing.editor = Some("code")
  /\ ~verdict.config_editing.is_config

(***************************************************************************)
(* The interactive mode                                                    *)
(***************************************************************************)

\* C24: after any sequence of chat turns, with successful or failing API
\* calls, and of 'clear' commands, conversation_history holds at most 20
\* messages, and 'clear' leaves it empty.
C24_HistoryBound ==
  [][/\ Len(conversation_history') <= 20
     /\ ClearHistory => conversation_history' = <<>>]_vars

\* C25: when the user answers yes to "Would you like to execute this
\* command?", the command that is then validated and executed is the one
\* that was displayed with that prompt.
C25_ExecutesDisplayed ==
  /\ assistant.path = "run_interactive"
  /\ [prompt |-> "Would you like to execute this command?", answer |-> TRUE]
       \in assistant.answers
  => /\ \A call \in assistant.validated : Some(call.command) = assistant.displayed
     /\ Executed => assistant.executed = assistant.displayed

(***************************************************************************)
(* The defaults of the ConfigManager                                       *)
(***************************************************************************)

\* C26: get_config never modifies DEFAULT_CONFIG: after any get_config
\* calls with system or user overrides present, setup_config edits and
\* reset_config, a get_config call made when no config file exists returns
\* the original defaults, with api.model gpt-4o-mini and
\* security.max_command_length 1000.
C26_DefaultsKept ==
  /\ DEFAULT_CONFIG = DefaultConfig
  /\ ~IsNone(last_config) /\ Value(last_config).files = {} =>
       /\ Value(last_config).config = DefaultConfig
       /\ Value(last_config).config.items.api.items.model = Leaf("gpt-4o-mini")
       /\ Value(last_config).config.items.security.items.max_command_length = Leaf(1000)

(***************************************************************************)
(* Backups and their restoration                                           *)
(***************************************************************************)

\* C27: for an existing file with resolved path p, whose components may
\* contain '_', the backup create_backup(p) returns is restored, with no
\* explicit target, onto p: the target derived from the backup file name is
\* p, and list_backups reports original_path = p for that backup.
C27_RoundTrip ==
  backup_call.op = "create_backup" /\ ~IsNone(backup_call.result) =>
    \A p \in {Resolve(Value(backup_call.argument))}, b \in {Value(backup_call.result)} :
      /\ RestoreTarget(b, None) = p
      /\ \E i \in DOMAIN list_backups(disk, None) :
           /\ list_backups(disk, None)[i].backup_path = b
           /\ list_backups(disk, None)[i].original_path = p

\* C28: a successful restore_backup(b, target) leaves the target holding the
\* content b held when it was called and leaves b as it was, also within the
\* second in which b was made; and a create_backup never overwrites a backup
\* that exists.
C28_RestoreFaithful ==
  [][/\ RestoreBackup /\ backup_call'.result = Some(TRUE) =>
          /\ disk'.files[RestoreTarget(Value(backup_call'.argument), backup_call'.target)]
               = Value(backup_call'.before)
          /\ disk'.backups[Value(backup_call'.name)] = Value(backup_call'.before)
     /\ CreateBackup /\ ~IsNone(backup_call'.before) =>
          disk'.backups[Value(backup_call'.name)] = Value(backup_call'.before)]_vars
====
